---- MODULE Spec2Model ----
(***************************************************************************)
(* A model of the document-intelligence core of the repository:            *)
(*   - backend/server.py: detect_document_structure,                       *)
(*     create_embedding_segments, calculate_similarity,                    *)
(*     find_related_sections, preprocess_text, calculate_sentence_scores,  *)
(*     extract_summary_offline and the search / related endpoints;         *)
(*   - round1b/persona_processor.py: calculate_relevance_score.            *)
(*                                                                         *)
(* A text is a sequence of one-character strings.  Each subsystem has its  *)
(* own specification (SpecStructure, SpecSummary, SpecRelevance,           *)
(* SpecSearch); the variables of the other subsystems keep their initial   *)
(* values there.                                                           *)
(***************************************************************************)
EXTENDS Integers, Sequences, FiniteSets, TLC

VARIABLES
    \* ---- structure / segmentation (server.py 130-219)
    pc,             \* position of the upload pipeline
    text,           \* the raw text handed to detect_document_structure
    structure,      \* its result
    segments,       \* the result of create_embedding_segments
    uuid_count,     \* number of uuid4() values drawn so far
    \* ---- summariser (server.py 241-306)
    sum_pc, sum_text, sum_title, max_sentences, sentences, score_calls,
    summary_sentences, summary,
    \* ---- relevance scorer (persona_processor.py 148-186)
    persona_keywords, job_keywords, all_sections,
    \* ---- similarity index (server.py 221-239, 404-433, 503-529)
    sim_pc, document, query_embedding, search_limit, search_results, related_target,
    related_ids, related_limit,
    \* ---- calculate_similarity as a function of two vectors (server.py 221-225)
    cos_pc, vec_a, vec_b, cos_ab, cos_ba,
    \* ---- outline extraction (hackathon_solution.py, round1a/process_pdfs.py)
    ol_pc,          \* "text" / "spans": the kind of input; then the function applied
    ol_text,        \* the text extracted from the PDF (pattern strategy)
    ol_spans,       \* the spans extracted from the PDF (font-metric strategy)
    ol_result,      \* the outline record returned
    ol_structure,   \* the result of detect_document_structure on ol_text
    \* ---- keyword question answering (server.py 308-352)
    qa_pc, question, context_segments, answer, qa_examined,
    \* ---- section refinement (persona_processor.py 188-221)
    rf_pc,            \* "args" with the arguments drawn, then "refined"
    rf_section,       \* the section given to refine_section_content
    rf_max_chars,     \* its max_chars argument
    rf_keywords,      \* self.persona_keywords and self.job_keywords as words
    refined_content,
    \* ---- the endpoints over the document store (server.py 389-544)
    lk_pc,            \* "ready", then "responded" once a request is answered
    db_documents,     \* db.documents: the stored documents, in insertion order
    request,          \* the request answered
    response,
    \* ---- the upload pipeline run twice on one text (server.py 367-371)
    rc_pc,            \* "text", "once", "twice"
    rc_text,          \* the text of both runs
    rc_drawn,         \* number of uuid4() values drawn so far
    first_run,        \* structure and segments of the first run
    second_run,
    \* ---- process_persona_documents (persona_processor.py 22-74, 223-306)
    pp_pc,            \* "start", "loaded", "returned", "written"
    persona_file,     \* /app/input/persona.json
    job_file,         \* /app/input/job.json
    pdf_files,        \* names of the PDF files of /app/input
    pdf_sections,     \* per file, its sections as they are scored
    processor,        \* persona_keywords and job_keywords of the processor
    loaded,           \* what load_persona_and_job returned
    output_file       \* challenge1b_output.json

structVars == <<pc, text, structure, segments, uuid_count>>
sumVars == <<sum_pc, sum_text, sum_title, max_sentences, sentences, score_calls,
             summary_sentences, summary>>
relVars == <<persona_keywords, job_keywords, all_sections>>
simVars == <<sim_pc, document, query_embedding, search_limit, search_results,
             related_target, related_ids, related_limit>>
cosVars == <<cos_pc, vec_a, vec_b, cos_ab, cos_ba>>
olVars == <<ol_pc, ol_text, ol_spans, ol_result, ol_structure>>
qaVars == <<qa_pc, question, context_segments, answer, qa_examined>>
rfVars == <<rf_pc, rf_section, rf_max_chars, rf_keywords, refined_content>>
lkVars == <<lk_pc, db_documents, request, response>>
rcVars == <<rc_pc, rc_text, rc_drawn, first_run, second_run>>
ppVars == <<pp_pc, persona_file, job_file, pdf_files, pdf_sections, processor, loaded, output_file>>
vars == <<structVars, sumVars, relVars, simVars, cosVars, olVars, qaVars, rfVars, lkVars, rcVars, ppVars>>

\* A subsystem that takes no part in a specification stays in its idle state.
StructIdle ==
    /\ pc = "idle" /\ text = <<>> /\ structure = <<>> /\ segments = <<>> /\ uuid_count = 0

SumIdle ==
    /\ sum_pc = "idle" /\ sum_text = <<>> /\ sum_title = <<>> /\ max_sentences = 0
    /\ sentences = <<>> /\ score_calls = 0 /\ summary_sentences = <<>> /\ summary = <<>>

RelIdle ==
    /\ persona_keywords = {} /\ job_keywords = {} /\ all_sections = <<>>

SimIdle ==
    /\ sim_pc = "idle" /\ document = <<>> /\ query_embedding = <<>> /\ search_limit = 0
    /\ search_results = <<>> /\ related_target = 0 /\ related_ids = <<>>
    /\ related_limit = 0

CosIdle ==
    /\ cos_pc = "idle" /\ vec_a = <<>> /\ vec_b = <<>> /\ cos_ab = <<>> /\ cos_ba = <<>>

OlIdle ==
    /\ ol_pc = "idle" /\ ol_text = <<>> /\ ol_spans = <<>> /\ ol_result = <<>>
    /\ ol_structure = <<>>

QaIdle ==
    /\ qa_pc = "idle" /\ question = <<>> /\ context_segments = <<>> /\ answer = <<>>
    /\ qa_examined = 0

RfIdle ==
    /\ rf_pc = "idle" /\ rf_section = <<>> /\ rf_max_chars = 0 /\ rf_keywords = <<>>
    /\ refined_content = <<>>

LkIdle ==
    /\ lk_pc = "idle" /\ db_documents = <<>> /\ request = <<>> /\ response = <<>>

RcIdle ==
    /\ rc_pc = "idle" /\ rc_text = <<>> /\ rc_drawn = 0 /\ first_run = <<>>
    /\ second_run = <<>>

PpIdle ==
    /\ pp_pc = "idle" /\ persona_file = <<>> /\ job_file = <<>> /\ pdf_files = <<>>
    /\ pdf_sections = <<>> /\ processor = <<>> /\ loaded = <<>> /\ output_file = <<>>

(***************************************************************************)
(* Bounds of the model.                                                    *)
(***************************************************************************)
MaxLines == 3          \* lines of an input text
MaxLongPrefix == 1     \* lines before the long line of a long input text
MaxBlocks == 3         \* sentences / page markers of a text to summarise
MaxSentencesArg == 2   \* largest max_sentences argument
MaxScore == 2          \* largest mean TF-IDF weight (in model units)
MaxTokens == 1         \* tokens of a scored section's content
MaxSegments == 7       \* stored segments of a document
MaxLimit == 2          \* largest search limit
MaxDim == 2            \* largest dimension of a vector given to calculate_similarity
MaxCoord == 1          \* largest absolute value of a coordinate
MaxOutlineLines == 2   \* lines of a text given to the outline extractor
MaxContexts == 2       \* candidate segments given to answer_question_offline
MaxSpans == 4          \* spans extracted from a PDF
MaxDocuments == 2      \* documents in the store

(***************************************************************************)
(* Characters and generic string helpers.                                  *)
(***************************************************************************)
UpperChars == <<"A", "B", "C", "D", "E", "F", "G", "H", "I", "J", "K", "L", "M",
                "N", "O", "P", "Q", "R", "S", "T", "U", "V", "W", "X", "Y", "Z">>
LowerChars == <<"a", "b", "c", "d", "e", "f", "g", "h", "i", "j", "k", "l", "m",
                "n", "o", "p", "q", "r", "s", "t", "u", "v", "w", "x", "y", "z">>
Upper == {UpperChars[i] : i \in 1..26}
Lower == {LowerChars[i] : i \in 1..26}
Digit == {"0", "1", "2", "3", "4", "5", "6", "7", "8", "9"}
Space == {" ", "\n"}

Rep(c, n) == [i \in 1..n |-> c]

Min(a, b) == IF a <= b THEN a ELSE b

\* s[a:b] of Python for 0 <= a, 0 <= b (0-based, end exclusive, clipped).
Slice(s, a, b) == SubSeq(s, Min(a, Len(s)) + 1, Min(b, Len(s)))

\* str.strip(): the string without its leading and trailing whitespace.
StripStr(s) ==
    LET n == Len(s)
        solid == {i \in 1..n : s[i] \notin Space}
        backs == {j \in 1..n : s[n + 1 - j] \notin Space}
    IN  IF solid = {} THEN <<>>
        ELSE LET first == CHOOSE i \in solid : \A k \in solid : i <= k
                 back == CHOOSE j \in backs : \A k \in backs : j <= k
             IN  SubSeq(s, first, n + 1 - back)

StartsWith(s, p) == Len(s) >= Len(p) /\ SubSeq(s, 1, Len(p)) = p
EndsWith(s, p) == Len(s) >= Len(p) /\ SubSeq(s, Len(s) - Len(p) + 1, Len(s)) = p

\* text.split('\n'): the pieces between the newlines, empty pieces kept.
SplitLines(s) ==
    LET nl == {i \in 1..Len(s) : s[i] = "\n"}
        \* position of the k-th newline; 0 before the first, Len+1 after the last
        at(k) == IF k = 0 THEN 0
                 ELSE IF k > Cardinality(nl) THEN Len(s) + 1
                 ELSE CHOOSE p \in nl : Cardinality({q \in nl : q < p}) = k - 1
    IN  [k \in 1..(Cardinality(nl) + 1) |-> SubSeq(s, at(k - 1) + 1, at(k) - 1)]

\* line.split(): the maximal runs of non-whitespace characters.
SplitWords(s) ==
    LET n == Len(s)
        starts == {i \in 1..n : s[i] \notin Space /\ (i = 1 \/ s[i - 1] \in Space)}
        startOf(k) == CHOOSE p \in starts : Cardinality({q \in starts : q < p}) = k - 1
        endOf(p) == CHOOSE e \in p..n :
                        /\ \A j \in p..e : s[j] \notin Space
                        /\ (e = n \/ s[e + 1] \in Space)
    IN  [k \in 1..Cardinality(starts) |-> SubSeq(s, startOf(k), endOf(startOf(k)))]

\* int(tok) succeeds: an optional sign followed by decimal digits.
IsIntLiteral(tok) ==
    LET body == IF Len(tok) > 0 /\ tok[1] = "-" THEN Tail(tok) ELSE tok
    IN  Len(body) > 0 /\ \A i \in 1..Len(body) : body[i] \in Digit

DigitChars == <<"0", "1", "2", "3", "4", "5", "6", "7", "8", "9">>

DigitValue(c) == (CHOOSE k \in 1..10 : DigitChars[k] = c) - 1

\* str(n) for n >= 0, as f"Chunk {i+1}" formats it.
RECURSIVE ToDecimal(_)
ToDecimal(n) ==
    IF n < 10 THEN <<DigitChars[n + 1]>>
    ELSE Append(ToDecimal(n \div 10), DigitChars[(n % 10) + 1])

RECURSIVE DecimalValue(_)
DecimalValue(ds) ==
    IF ds = <<>> THEN 0
    ELSE 10 * DecimalValue(SubSeq(ds, 1, Len(ds) - 1)) + DigitValue(ds[Len(ds)])

ParseInt(tok) ==
    IF tok[1] = "-" THEN 0 - DecimalValue(Tail(tok)) ELSE DecimalValue(tok)

(***************************************************************************)
(* detect_document_structure (server.py 130-178).                          *)
(***************************************************************************)
PageMarkerPrefix == <<"-", "-", "-", " ", "P", "a", "g", "e", " ">>
PageMarkerSuffix == <<" ", "-", "-", "-">>

\* re.match(r'^[A-Z][A-Z\s]{3,}$', line)
IsAllCaps(line) ==
    /\ Len(line) >= 4
    /\ line[1] \in Upper
    /\ \A i \in 2..Len(line) : line[i] \in Upper \cup Space

\* Number of consecutive characters of class cls in s from position from on.
RunLen(s, from, cls) ==
    LET stops == {i \in from..(Len(s) + 1) : i = Len(s) + 1 \/ s[i] \notin cls}
    IN  (CHOOSE i \in stops : \A j \in stops : i <= j) - from

\* re.match(r'^\d+\.\s+[A-Z]', line): the digit run ends at the period and the
\* whitespace run at the capital, so both runs are the maximal ones.
IsNumberedChapter(line) ==
    LET k == RunLen(line, 1, Digit)
        m == RunLen(line, k + 2, Space)
    IN  /\ k >= 1
        /\ k + 1 <= Len(line) /\ line[k + 1] = "."
        /\ m >= 1
        /\ k + 2 + m <= Len(line) /\ line[k + 2 + m] \in Upper

\* re.match(r'^\d+\.\d+\s+[A-Z]', line)
IsNumberedSection(line) ==
    LET k == RunLen(line, 1, Digit)
        d == RunLen(line, k + 2, Digit)
        m == RunLen(line, k + 2 + d, Space)
    IN  /\ k >= 1
        /\ k + 1 <= Len(line) /\ line[k + 1] = "."
        /\ d >= 1
        /\ m >= 1
        /\ k + 2 + d + m <= Len(line) /\ line[k + 2 + d + m] \in Upper

\* re.match(r'^[A-Z][a-z]+(\s+[A-Z][a-z]+)*:?$', line)
IsTitleCase(line) ==
    LET s == IF Len(line) > 0 /\ line[Len(line)] = ":"
             THEN SubSeq(line, 1, Len(line) - 1) ELSE line
        n == Len(s)
    IN  /\ n >= 2
        /\ s[1] \in Upper
        /\ s[n] \in Lower
        /\ \A i \in 1..n :
             /\ s[i] \in Upper \cup Lower \cup Space
             /\ s[i] \in Upper => (i < n /\ s[i + 1] \in Lower) /\ (i = 1 \/ s[i - 1] \in Space)
             /\ s[i] \in Space => i < n /\ s[i + 1] \in Space \cup Upper
             /\ s[i] \in Lower => i > 1 /\ s[i - 1] \in Upper \cup Lower

ShortLineLimit == 100

\* len(line) < 100 and not line.endswith('.') and any(c.isupper() for c in line)
IsShortHeading(line) ==
    /\ Len(line) < ShortLineLimit
    /\ ~EndsWith(line, <<".">>)
    /\ \E i \in 1..Len(line) : line[i] \in Upper

\* The chain with the short-line rule tried first.
HeadingLevelShortFirst(line) ==
    IF IsShortHeading(line) THEN 3
    ELSE IF IsAllCaps(line) THEN 1
    ELSE IF IsNumberedChapter(line) THEN 1
    ELSE IF IsNumberedSection(line) THEN 2
    ELSE IF IsTitleCase(line) THEN 2
    ELSE 0

\* The if / elif chain of lines 154-163: the first matching rule decides.
HeadingLevel(line) ==
    IF IsAllCaps(line) THEN 1
    ELSE IF IsNumberedChapter(line) THEN 1
    ELSE IF IsNumberedSection(line) THEN 2
    ELSE IF IsTitleCase(line) THEN 2
    ELSE IF IsShortHeading(line) THEN 3
    ELSE 0

\* uuid.uuid4(): the n-th value drawn is different from every earlier one.
Uuid4(n) == n

\* The loop of lines 137-176 from line i on.  ok = FALSE: int() raised ValueError.
RECURSIVE DetectLoop(_, _, _, _, _, _)
DetectLoop(lines, i, current_page, char_position, acc, drawn) ==
    IF i > Len(lines) THEN [ok |-> TRUE, structure |-> acc, drawn |-> drawn]
    ELSE
        LET line == StripStr(lines[i]) IN
        IF line = <<>> THEN
            DetectLoop(lines, i + 1, current_page, char_position + 1, acc, drawn)
        ELSE IF StartsWith(line, PageMarkerPrefix) /\ EndsWith(line, PageMarkerSuffix) THEN
            LET tok == SplitWords(line)[3] IN
            IF IsIntLiteral(tok) THEN
                DetectLoop(lines, i + 1, ParseInt(tok),
                           char_position + Len(line) + 1, acc, drawn)
            ELSE [ok |-> FALSE, structure |-> <<>>, drawn |-> drawn]
        ELSE
            LET level == HeadingLevel(line)
                section == [id |-> Uuid4(drawn + 1),
                            title |-> line,
                            level |-> level,
                            page_number |-> current_page,
                            start_char |-> char_position,
                            end_char |-> char_position + Len(line),
                            content |-> line]
            IN  IF level > 0 THEN
                    DetectLoop(lines, i + 1, current_page,
                               char_position + Len(line) + 1,
                               Append(acc, section), drawn + 1)
                ELSE
                    DetectLoop(lines, i + 1, current_page,
                               char_position + Len(line) + 1, acc, drawn)

\* A plausible slip: the running offset starts at 1 instead of 0.
detect_document_structure_from_one(t, drawn) ==
    DetectLoop(SplitLines(t), 1, 1, 1, <<>>, drawn)

detect_document_structure(t, drawn) == DetectLoop(SplitLines(t), 1, 1, 0, <<>>, drawn)

(***************************************************************************)
(* create_embedding_segments (server.py 180-219).                          *)
(***************************************************************************)
MinSegmentLen == 50     \* len(segment_text) > 50, len(chunk.strip()) > 50
ContentLimit == 1000    \* segment_text[:1000]
ChunkSize == 1000       \* text[i:i+1000]
ChunkStride == 800      \* range(0, len(text), 800)

\* embedding_model.encode(t).tolist(): the external embedding model, a
\* deterministic function of the text with a non-zero result.
Embed(t) == <<1 + (Len(t) % 2), 1 + (Cardinality({i \in 1..Len(t) : t[i] \in Upper}) % 2)>>

ChunkIdPrefix == <<"c", "h", "u", "n", "k", "_">>
ChunkTitlePrefix == <<"C", "h", "u", "n", "k", " ">>

\* The loop of lines 187-203 from section i on (i is 1-based here).
RECURSIVE SectionSegments(_, _, _, _, _)
SectionSegments(t, struct, i, acc, drawn) ==
    IF i > Len(struct) THEN [segments |-> acc, drawn |-> drawn]
    ELSE
        LET section == struct[i]
            start_pos == section.start_char
            end_pos == IF i + 1 <= Len(struct) THEN struct[i + 1].start_char ELSE Len(t)
            segment_text == StripStr(Slice(t, start_pos, end_pos))
            segment == [id |-> Uuid4(drawn + 1),
                        section_id |-> section.id,
                        title |-> section.title,
                        content |-> Slice(segment_text, 0, ContentLimit),
                        page_number |-> section.page_number,
                        embedding |-> Embed(segment_text)]
        IN  IF Len(segment_text) > MinSegmentLen THEN
                SectionSegments(t, struct, i + 1, Append(acc, segment), drawn + 1)
            ELSE
                SectionSegments(t, struct, i + 1, acc, drawn)

\* A plausible slip: chunks that do not overlap (the stride is the chunk size).
FixedChunksNoOverlap(t) ==
    LET count == (Len(t) + ChunkSize - 1) \div ChunkSize
    IN  [k \in 1..count |-> Slice(t, (k - 1) * ChunkSize, k * ChunkSize)]

\* Line 206: [text[i:i+1000] for i in range(0, len(text), 800)].
FixedChunks(t) ==
    LET count == (Len(t) + ChunkStride - 1) \div ChunkStride
    IN  [k \in 1..count |-> Slice(t, (k - 1) * ChunkStride, (k - 1) * ChunkStride + ChunkSize)]

\* The loop of lines 207-217 from chunk i on (i is 0-based, as enumerate gives it).
RECURSIVE ChunkSegments(_, _, _, _)
ChunkSegments(chunks, i, acc, drawn) ==
    IF i >= Len(chunks) THEN [segments |-> acc, drawn |-> drawn]
    ELSE
        LET chunk == chunks[i + 1]
            segment == [id |-> Uuid4(drawn + 1),
                        section_id |-> ChunkIdPrefix \o ToDecimal(i),
                        title |-> ChunkTitlePrefix \o ToDecimal(i + 1),
                        content |-> chunk,
                        page_number |-> 1,
                        embedding |-> Embed(chunk)]
        IN  IF Len(StripStr(chunk)) > MinSegmentLen THEN
                ChunkSegments(chunks, i + 1, Append(acc, segment), drawn + 1)
            ELSE
                ChunkSegments(chunks, i + 1, acc, drawn)

\* A plausible slip: every section's body runs to the end of the text.
RECURSIVE SectionSegmentsToEnd(_, _, _, _, _)
SectionSegmentsToEnd(t, struct, i, acc, drawn) ==
    IF i > Len(struct) THEN [segments |-> acc, drawn |-> drawn]
    ELSE
        LET section == struct[i]
            segment_text == StripStr(Slice(t, section.start_char, Len(t)))
            segment == [id |-> Uuid4(drawn + 1),
                        section_id |-> section.id,
                        title |-> section.title,
                        content |-> Slice(segment_text, 0, ContentLimit),
                        page_number |-> section.page_number,
                        embedding |-> Embed(segment_text)]
        IN  IF Len(segment_text) > MinSegmentLen THEN
                SectionSegmentsToEnd(t, struct, i + 1, Append(acc, segment), drawn + 1)
            ELSE
                SectionSegmentsToEnd(t, struct, i + 1, acc, drawn)

create_embedding_segments_to_end(t, struct, drawn) ==
    IF struct # <<>> THEN SectionSegmentsToEnd(t, struct, 1, <<>>, drawn)
    ELSE ChunkSegments(FixedChunks(t), 0, <<>>, drawn)

create_embedding_segments(t, struct, drawn) ==
    IF struct # <<>> THEN SectionSegments(t, struct, 1, <<>>, drawn)
    ELSE ChunkSegments(FixedChunks(t), 0, <<>>, drawn)

(***************************************************************************)
(* The input texts: up to MaxLines lines of LinePool joined by newlines,   *)
(* and the long texts: up to MaxLongPrefix lines of LinePool followed by   *)
(* one line of LongLinePool.                                               *)
(***************************************************************************)
LinePool ==
    { <<>>,
      <<" ", " ">>,
      <<"A", "B", " ", "C", "D">>,
      <<"1", ".", " ", "A">>,
      <<"1", ".", "1", " ", "A">>,
      <<" ", " ", "A", "b">>,
      <<"a", "B">>,
      <<"a", "B", ".">>,
      <<"-", "-", "-", " ", "P", "a", "g", "e", " ", "2", " ", "-", "-", "-">>,
      <<"-", "-", "-", " ", "P", "a", "g", "e", " ", "x", " ", "-", "-", "-">>,
      Rep("x", 60) }

LongLinePool ==
    { Rep("x", 2500),
      Rep(" ", 1000) \o Rep("x", 60),
      <<"1", ".", " ", "A">> \o Rep("x", 1100) }

RECURSIVE JoinLines(_)
JoinLines(ls) ==
    IF Len(ls) = 0 THEN <<>>
    ELSE IF Len(ls) = 1 THEN ls[1]
    ELSE ls[1] \o <<"\n">> \o JoinLines(Tail(ls))

LineSeqs(n) == UNION {[1..k -> LinePool] : k \in 0..n}

InputTexts ==
    {JoinLines(ls) : ls \in LineSeqs(MaxLines)}
    \cup {JoinLines(Append(ls, long)) : ls \in LineSeqs(MaxLongPrefix), long \in LongLinePool}

(***************************************************************************)
(* The upload pipeline over one text (server.py 367-371).                  *)
(***************************************************************************)
StructInit ==
    /\ pc = "uploaded"
    /\ text \in InputTexts
    /\ structure = <<>>
    /\ segments = <<>>
    /\ uuid_count = 0

\* structure = detect_document_structure(text); a ValueError ends the upload.
DetectDocumentStructure ==
    /\ pc = "uploaded"
    /\ LET r == detect_document_structure(text, uuid_count) IN
        /\ pc' = IF r.ok THEN "structured" ELSE "failed"
        /\ structure' = r.structure
        /\ uuid_count' = r.drawn
    /\ UNCHANGED <<text, segments>>

\* embedding_segments = create_embedding_segments(text, structure)
CreateEmbeddingSegments ==
    /\ pc = "structured"
    /\ LET r == create_embedding_segments(text, structure, uuid_count) IN
        /\ segments' = r.segments
        /\ uuid_count' = r.drawn
    /\ pc' = "segmented"
    /\ UNCHANGED <<text, structure>>

(***************************************************************************)
(* Sorting: list.sort(key=...) and heapq.nlargest are stable.              *)
(* before: the pairs <<i, j>> of positions such that the key of s[i] sorts  *)
(* strictly before the key of s[j].                                        *)
(***************************************************************************)
Pairs(s) == (1..Len(s)) \X (1..Len(s))

StableSort(s, before) ==
    LET n == Len(s)
        rank == [i \in 1..n |-> 1 + Cardinality({j \in 1..n :
                        <<j, i>> \in before \/ (<<i, j>> \notin before /\ j < i)})] \o <<>>
    IN  [r \in 1..n |-> s[CHOOSE i \in 1..n : rank[i] = r]] \o <<>>

\* s[:n] of Python: n < 0 counts from the end.
Prefix(s, n) ==
    IF n >= 0 THEN SubSeq(s, 1, Min(n, Len(s)))
    ELSE SubSeq(s, 1, Len(s) + n)

(***************************************************************************)
(* The extractive summariser (server.py 241-306).                          *)
(*                                                                         *)
(* A text to summarise is a sequence of blocks: a page marker, or a        *)
(* sentence as sent_tokenize delimits it, given as its sequence of words.  *)
(* A string is the sequence of its words and of the " " between them.      *)
(***************************************************************************)
PageMarker == <<"--- Page 1 ---">>

\* Words that TfidfVectorizer(stop_words='english') drops.
StopWords == {"to", "be", "or", "not", "it"}

BlockPool ==
    { PageMarker,
      <<"to", "be", "or">>,
      <<"alpha", "to", "be", "or", "not">>,
      <<"to", "be", "or", "not", "to", "be">>,
      <<"to", "be", "or", "not", "to", "be", "it">>,
      <<"alpha", "beta", "to", "be", "or", "not">> }

TitlePool == { <<>>, <<"alpha">> }

\* " ".join(words)
RECURSIVE JoinSpace(_)
JoinSpace(parts) ==
    IF Len(parts) = 0 THEN <<>>
    ELSE IF Len(parts) = 1 THEN parts[1]
    ELSE parts[1] \o <<" ">> \o JoinSpace(Tail(parts))

\* The sentence string of a block of words.
SentenceOf(words) == JoinSpace([i \in 1..Len(words) |-> <<words[i]>>])

\* sentence.split(): the words of a string.
WordsOf(str) == SelectSeq(str, LAMBDA tok : tok # " ")

MinSentenceWords == 5

\* preprocess_text: page markers removed, whitespace collapsed, the text split
\* into sentences, sentences of at most 5 words dropped.
preprocess_text(blocks) ==
    LET tokenized == SelectSeq(blocks, LAMBDA b : b # PageMarker)
        strs == [i \in 1..Len(tokenized) |-> SentenceOf(tokenized[i])]
    IN  SelectSeq(strs, LAMBDA str : Len(WordsOf(str)) > MinSentenceWords)

\* The distinct elements of a sequence, in order of first occurrence: the keys
\* of a dict filled in that order.
RECURSIVE DictKeys(_)
DictKeys(seq) ==
    IF seq = <<>> THEN <<>>
    ELSE LET init == SubSeq(seq, 1, Len(seq) - 1)
             last == seq[Len(seq)]
         IN  IF \E i \in 1..Len(init) : init[i] = last
             THEN DictKeys(init) ELSE Append(DictKeys(init), last)

\* fit_transform raises ValueError (empty vocabulary) when no document has a
\* word that is not a stop word.
TfidfFails(all_text) ==
    \A i \in 1..Len(all_text) : \A j \in 1..Len(all_text[i]) :
        all_text[i][j] \in StopWords \cup {" "}

\* calculate_sentence_scores: the dict sentence -> score, as the sequence of
\* its items.  tfidf gives the mean TF-IDF weight of a document's row; equal
\* documents have equal rows.  When fit_transform raises, the score is the
\* number of words.
calculate_sentence_scores(sents, title, tfidf) ==
    LET all_text == IF title # <<>> THEN <<title>> \o sents ELSE sents
        keys == DictKeys(sents)
    IN  IF TfidfFails(all_text)
        THEN [k \in 1..Len(keys) |-> <<keys[k], Len(WordsOf(keys[k]))>>]
        ELSE [k \in 1..Len(keys) |-> <<keys[k], tfidf[keys[k]]>>]

\* heapq.nlargest(n, items, key=lambda x: x[1]):
\* sorted(items, key=..., reverse=True)[:n], and [] for n <= 0.
NLargest(n, items) ==
    IF n <= 0 THEN <<>>
    ELSE Prefix(StableSort(items, {p \in Pairs(items) : items[p[1]][2] > items[p[2]][2]}), n)

\* sentences.index(x) if x in sentences else 0
IndexKey(sents, x) ==
    IF \E i \in 1..Len(sents) : sents[i] = x
    THEN (CHOOSE i \in 1..Len(sents) : sents[i] = x /\ \A j \in 1..(i - 1) : sents[j] # x) - 1
    ELSE 0

\* extract_summary_offline, variant without the final sort by position.
extract_summary_offline_unsorted(blocks, title, n, tfidf) ==
    LET sents == preprocess_text(blocks) IN
    IF Len(sents) <= n THEN
        [sentences |-> sents, scored |-> 0, summary_sentences |-> sents,
         summary |-> JoinSpace(sents)]
    ELSE
        LET sentence_scores == calculate_sentence_scores(sents, title, tfidf)
            top_sentences == NLargest(n, sentence_scores)
            picked == [i \in 1..Len(top_sentences) |-> top_sentences[i][1]]
        IN  [sentences |-> sents, scored |-> 1, summary_sentences |-> picked,
             summary |-> JoinSpace(picked)]

\* extract_summary_offline, variant scoring also when len(sentences) = max_sentences.
extract_summary_offline_strict(blocks, title, n, tfidf) ==
    LET sents == preprocess_text(blocks) IN
    IF Len(sents) < n THEN
        [sentences |-> sents, scored |-> 0, summary_sentences |-> sents,
         summary |-> JoinSpace(sents)]
    ELSE
        LET sentence_scores == calculate_sentence_scores(sents, title, tfidf)
            top_sentences == NLargest(n, sentence_scores)
            picked == [i \in 1..Len(top_sentences) |-> top_sentences[i][1]]
            ordered == StableSort(picked, {p \in Pairs(picked) :
                           IndexKey(sents, picked[p[1]]) < IndexKey(sents, picked[p[2]])})
        IN  [sentences |-> sents, scored |-> 1, summary_sentences |-> ordered,
             summary |-> JoinSpace(ordered)]

\* extract_summary_offline(text, title, max_sentences).  scored counts the
\* calls of calculate_sentence_scores.
extract_summary_offline(blocks, title, n, tfidf) ==
    LET sents == preprocess_text(blocks) IN
    IF Len(sents) <= n THEN
        [sentences |-> sents, scored |-> 0, summary_sentences |-> sents,
         summary |-> JoinSpace(sents)]
    ELSE
        LET sentence_scores == calculate_sentence_scores(sents, title, tfidf)
            top_sentences == NLargest(n, sentence_scores)
            picked == [i \in 1..Len(top_sentences) |-> top_sentences[i][1]]
            ordered == StableSort(picked, {p \in Pairs(picked) :
                           IndexKey(sents, picked[p[1]]) < IndexKey(sents, picked[p[2]])})
        IN  [sentences |-> sents, scored |-> 1, summary_sentences |-> ordered,
             summary |-> JoinSpace(ordered)]

BlockSeqs == UNION {[1..k -> BlockPool] : k \in 0..MaxBlocks}

SumInit ==
    /\ sum_pc = "request"
    /\ sum_text \in BlockSeqs
    /\ sum_title \in TitlePool
    /\ max_sentences \in (-1)..MaxSentencesArg
    /\ sentences = <<>>
    /\ score_calls = 0
    /\ summary_sentences = <<>>
    /\ summary = <<>>

\* summary = extract_summary_offline(content, title, request.max_length); the
\* TF-IDF weights are whatever the vectorizer computes.
ExtractSummaryOffline ==
    /\ sum_pc = "request"
    /\ \E tfidf \in [{preprocess_text(sum_text)[i] :
                          i \in 1..Len(preprocess_text(sum_text))} -> 0..MaxScore] :
         LET r == extract_summary_offline(sum_text, sum_title, max_sentences, tfidf) IN
            /\ sentences' = r.sentences
            /\ score_calls' = r.scored
            /\ summary_sentences' = r.summary_sentences
            /\ summary' = r.summary
    /\ sum_pc' = "done"
    /\ UNCHANGED <<sum_text, sum_title, max_sentences>>

SumNext == ExtractSummaryOffline /\ UNCHANGED <<structVars, relVars, simVars, cosVars, olVars, qaVars, rfVars, lkVars, rcVars, ppVars>>

SummaryInit == SumInit /\ StructIdle /\ RelIdle /\ SimIdle /\ CosIdle /\ OlIdle /\ QaIdle /\ RfIdle /\ LkIdle /\ RcIdle /\ PpIdle

SpecSummary == SummaryInit /\ [][SumNext]_vars

(***************************************************************************)
(* The relevance scorer (persona_processor.py 148-186).                    *)
(*                                                                         *)
(* A title or content is the sequence of its space-separated tokens.  A    *)
(* score s is held as the integer 10*s (the result has one decimal place). *)
(***************************************************************************)
Bullet == "<bullet>"       \* the one-character token U+2022

\* len(token)
TokLen(tok) == IF tok = Bullet THEN 1 ELSE Len(tok)

\* str.lower() on a token
LowerTok(tok) ==
    CASE tok = "Hotel" -> "hotel"
      [] tok = "Budget" -> "budget"
      [] tok = "Study" -> "study"
      [] tok = "Silver" -> "silver"
      [] OTHER -> tok

\* Tokens with a character outside \w: no run of 3 word characters in them.
NonWordTokens == {"3.5", "1.", Bullet}

MinWordLen == 3

\* re.findall(r'\b\w{3,}\b', content_text)
FindWords(toks) ==
    LET low == [i \in 1..Len(toks) |-> LowerTok(toks[i])]
    IN  SelectSeq(low, LAMBDA w : w \notin NonWordTokens /\ TokLen(w) >= MinWordLen)

RECURSIVE SumOver(_, _)
SumOver(toks, f) ==
    IF toks = <<>> THEN 0 ELSE f[toks[1]] + SumOver(Tail(toks), f)

\* len(" ".join(tokens))
TextLen(toks) ==
    IF toks = <<>> THEN 0
    ELSE SumOver(toks, [t \in {toks[i] : i \in 1..Len(toks)} |-> TokLen(t)]) + Len(toks) - 1

\* Number of '.', '!' and '?' in a token.
PunctCount(tok) == IF tok \in {"3.5", "1."} THEN 1 ELSE 0

domain_patterns ==
    [travel |-> {"destination", "hotel", "restaurant", "attraction", "transport",
                 "booking", "itinerary", "sightseeing"},
     research |-> {"methodology", "analysis", "data", "study", "findings",
                   "experiment", "survey", "results"},
     business |-> {"strategy", "market", "revenue", "customer", "product", "sales",
                   "profit", "ROI"},
     education |-> {"learning", "student", "course", "curriculum", "degree",
                    "academic", "university", "college"},
     healthcare |-> {"patient", "treatment", "medical", "diagnosis", "therapy",
                     "health", "clinical", "medicine"},
     technology |-> {"software", "development", "programming", "system",
                     "application", "digital", "tech", "IT"}]

\* sum(1 for word in words if word in keywords)
Matches(words, keywords) == Len(SelectSeq(words, LAMBDA w : w \in keywords))

\* Tokens containing 'table', 'figure', 'chart' or 'graph'.
FigureTokens == {"table"}

\* Tokens matching \d+%|\$\d+|\d+\.\d+.
StatTokens == {"3.5"}

KeywordWeightPersona == 20
KeywordWeightJob == 30
DomainWeight == 10
LengthDivisor == 100
LengthCap == 5
SentenceDivisor == 3
SentenceCap == 3
ScoreCap == 10

\* The features calculate_relevance_score reads from a section.
SectionFeatures(section, persona, job) ==
    LET toks == section.title \o section.content
        words == FindWords(toks)
        doms == DOMAIN domain_patterns
        hit == {d \in doms : Matches(words, domain_patterns[d]) > 0}
        dm == [d \in doms |-> Matches(words, domain_patterns[d])]
        RECURSIVE SumSet(_)
        SumSet(ds) == IF ds = {} THEN 0
                      ELSE LET d == CHOOSE e \in ds : TRUE
                           IN  dm[d] + SumSet(ds \ {d})
    IN  [nwords |-> Len(words),
         persona_matches |-> Matches(words, persona),
         job_matches |-> Matches(words, job),
         domain_matches |-> SumSet(hit),
         length |-> TextLen(section.title) + 1 + TextLen(section.content),
         sentence_count |-> SumOver(toks, [t \in {toks[i] : i \in 1..Len(toks)} |-> PunctCount(t)]),
         structure_score |->
             (IF \E i \in 1..Len(toks) : toks[i] = Bullet THEN 2 ELSE 0)
             + (IF \E i \in 1..Len(toks) : LowerTok(toks[i]) \in FigureTokens THEN 1 ELSE 0)
             + (IF \E i \in 1..Len(toks) : toks[i] \in StatTokens THEN 1 ELSE 0)]

\* round(x, 1) of x = num/den >= 0, as 10*x rounded to an integer.  At an exact
\* half the binary error of the float decides the direction: half_up.
RoundTenths(num, den, half_up) ==
    LET q == (10 * num) \div den
        r == (10 * num) % den
    IN  IF 2 * r < den THEN q
        ELSE IF 2 * r > den THEN q + 1
        ELSE IF half_up THEN q + 1 ELSE q

\* Lines 155-186 on the features f, with W = f.nwords:
\*   total = (20*pm + job_weight*jm + 10*sum(dm))/W + min(L/100, 5) + min(S/3, 3) + structure
\* computed exactly as num/den with den = 300*W, then round(min(total, 10.0), 1).
RelevanceFromFeatures(f, half_up, job_weight, capped) ==
    LET den == LengthDivisor * SentenceDivisor * f.nwords
        num == LengthDivisor * SentenceDivisor
                   * (KeywordWeightPersona * f.persona_matches
                      + job_weight * f.job_matches
                      + DomainWeight * f.domain_matches)
               + SentenceDivisor * f.nwords * Min(f.length, LengthCap * LengthDivisor)
               + LengthDivisor * f.nwords * Min(f.sentence_count, SentenceCap * SentenceDivisor)
               + den * f.structure_score
    IN  IF f.nwords = 0 THEN 0
        ELSE RoundTenths(IF capped THEN Min(num, ScoreCap * den) ELSE num, den, half_up)

\* calculate_relevance_score, variant without the cap at 10.0.
calculate_relevance_score_uncapped(section, persona, job, half_up) ==
    RelevanceFromFeatures(SectionFeatures(section, persona, job), half_up,
                          KeywordWeightJob, FALSE)

\* calculate_relevance_score, variant whose job keyword term is lost.
calculate_relevance_score_no_job(section, persona, job, half_up) ==
    RelevanceFromFeatures(SectionFeatures(section, persona, job), half_up, 0, TRUE)

\* calculate_relevance_score(section)
calculate_relevance_score(section, persona, job, half_up) ==
    RelevanceFromFeatures(SectionFeatures(section, persona, job), half_up,
                          KeywordWeightJob, TRUE)

\* The tokens of section contents, and the section titles (heading lines).
TokenPool == {"Hotel", "budget", "study", "energy", "on", "3.5", Bullet, "table"}

SectionTitlePool == { <<"Study">>, <<"1.", "on">> }

ContentPool == UNION {[1..k -> TokenPool] : k \in 1..MaxTokens}

\* The spec's example and an unrelated section of equal length.
ExampleContents ==
    { <<"Budget", "hotel", "recommendations", "for", "travelers", "on", "a", "budget">>,
      <<"Silver", "birds", "characteristics", "are", "wonderful", "in", "a", "meadow">> }

SectionPool ==
    {[title |-> t, content |-> c] : t \in SectionTitlePool, c \in ContentPool \cup ExampleContents}

RelInit ==
    /\ persona_keywords \in { {}, {"travel", "hotel"} }
    /\ job_keywords \in { {}, {"budget"} }
    /\ all_sections = <<>>

\* Lines 254-257: section['relevance_score'] = calculate_relevance_score(section);
\* all_sections.append(section).  Two sections are scored, to be compared.
ScoreSection ==
    /\ Len(all_sections) < 2
    /\ \E section \in SectionPool : \E half_up \in BOOLEAN :
         all_sections' = Append(all_sections,
             [title |-> section.title, content |-> section.content,
              relevance_score |->
                  calculate_relevance_score(section, persona_keywords, job_keywords, half_up)])
    /\ UNCHANGED <<persona_keywords, job_keywords>>

RelNext == ScoreSection /\ UNCHANGED <<structVars, sumVars, simVars, cosVars, olVars, qaVars, rfVars, lkVars, rcVars, ppVars>>

RelevanceInit == RelInit /\ StructIdle /\ SumIdle /\ SimIdle /\ CosIdle /\ OlIdle /\ QaIdle /\ RfIdle /\ LkIdle /\ RcIdle /\ PpIdle

SpecRelevance == RelevanceInit /\ [][RelNext]_vars

(***************************************************************************)
(* The similarity index (server.py 221-239, 404-433, 503-529).             *)
(*                                                                         *)
(* Embeddings are integer vectors.  The cosine dot / (|a| * |b|) is held   *)
(* exactly, as the pair of dot and |a|^2 * |b|^2; NaN is the result of     *)
(* 0.0 / 0.0 for a vector of norm zero.                                    *)
(***************************************************************************)
NaN == [dot |-> 0, norm_sq |-> 0]

IsNaN(x) == x.norm_sq = 0

RECURSIVE Dot(_, _)
Dot(a, b) == IF a = <<>> THEN 0 ELSE a[1] * b[1] + Dot(Tail(a), Tail(b))

\* calculate_similarity, variant dividing by the squared norm of the first vector.
calculate_similarity_projection(embedding1, embedding2) ==
    LET norm_sq == Dot(embedding1, embedding1) * Dot(embedding1, embedding1)
    IN  IF norm_sq = 0 THEN NaN
        ELSE [dot |-> Dot(embedding1, embedding2), norm_sq |-> norm_sq]

\* np.dot(a, b) / (np.linalg.norm(a) * np.linalg.norm(b))
calculate_similarity(embedding1, embedding2) ==
    LET norm_sq == Dot(embedding1, embedding1) * Dot(embedding2, embedding2)
    IN  IF norm_sq = 0 THEN NaN
        ELSE [dot |-> Dot(embedding1, embedding2), norm_sq |-> norm_sq]

Sign(n) == IF n > 0 THEN 1 ELSE IF n < 0 THEN -1 ELSE 0

\* x > y on similarities: dot_x / sqrt(nx) > dot_y / sqrt(ny), compared through
\* the signed squares; every comparison with NaN is false.
SimGreater(x, y) ==
    /\ ~IsNaN(x) /\ ~IsNaN(y)
    /\ Sign(x.dot) * x.dot * x.dot * y.norm_sq > Sign(y.dot) * y.dot * y.dot * x.norm_sq

DefaultRelatedLimit == 3
ExplicitRelatedLimit == 5

\* find_related_sections, variant that does not skip the target itself.
find_related_sections_with_target(target_segment, all_segments, limit) ==
    LET similarities ==
            [i \in 1..Len(all_segments) |->
                <<all_segments[i].id,
                  calculate_similarity(target_segment.embedding, all_segments[i].embedding)>>] \o <<>>
        sorted == StableSort(similarities, {p \in Pairs(similarities) :
                      SimGreater(similarities[p[1]][2], similarities[p[2]][2])})
        top == Prefix(sorted, limit)
    IN  [i \in 1..Len(top) |-> top[i][1]]

\* find_related_sections(target_segment, all_segments, limit)
find_related_sections(target_segment, all_segments, limit) ==
    LET others == SelectSeq(all_segments, LAMBDA seg : seg.id # target_segment.id)
        similarities ==
            [i \in 1..Len(others) |->
                <<others[i].id,
                  calculate_similarity(target_segment.embedding, others[i].embedding)>>] \o <<>>
        sorted == StableSort(similarities, {p \in Pairs(similarities) :
                      SimGreater(similarities[p[1]][2], similarities[p[2]][2])})
        top == Prefix(sorted, limit)
    IN  [i \in 1..Len(top) |-> top[i][1]]

\* Lines 414-429: one SearchResult per segment.
SearchResults(segs, query) ==
    [i \in 1..Len(segs) |->
        [section_id |-> segs[i].id,
         similarity_score |-> calculate_similarity(query, segs[i].embedding),
         related_sections |-> find_related_sections(segs[i], segs, DefaultRelatedLimit)]] \o <<>>

\* search_document, variant sorting in ascending order.
search_document_ascending(segs, query, limit) ==
    LET results == SearchResults(segs, query)
    IN  Prefix(StableSort(results, {p \in Pairs(results) :
                   SimGreater(results[p[2]].similarity_score, results[p[1]].similarity_score)}),
               limit)

\* search_document: results.sort(key=similarity_score, reverse=True); results[:limit]
search_document(segs, query, limit) ==
    LET results == SearchResults(segs, query)
    IN  Prefix(StableSort(results, {p \in Pairs(results) :
                   SimGreater(results[p[1]].similarity_score, results[p[2]].similarity_score)}),
               limit)

\* Outputs of the embedding model: for queries, and for the stored segments.
EmbeddingPool == { <<1, 0>>, <<1, 1>>, <<-1, 0>> }

SegmentEmbeddingPool == { <<1, 0>>, <<1, 1>> }

\* The stored document's embedding_segments; the ids are distinct uuids.
StoredSegments ==
    UNION {{[i \in 1..n |-> [id |-> Uuid4(i), embedding |-> e[i]]] : e \in [1..n -> SegmentEmbeddingPool]}
           : n \in 0..MaxSegments}

SimInit ==
    /\ sim_pc = "ready"
    /\ document \in StoredSegments
    /\ query_embedding = <<>>
    /\ search_limit = 0
    /\ search_results = <<>>
    /\ related_target = 0
    /\ related_limit = 0
    /\ related_ids = <<>>

\* POST /documents/{id}/search with a query and a limit.  A request reads the
\* stored document and changes nothing, so a behaviour answers one request.
SearchDocument ==
    /\ sim_pc = "ready"
    /\ sim_pc' = "searched"
    /\ \E q \in EmbeddingPool : \E limit \in (-1)..MaxLimit :
        /\ query_embedding' = q
        /\ search_limit' = limit
        /\ search_results' = search_document(document, q, limit)
    /\ related_target' = 0 /\ related_limit' = 0 /\ related_ids' = <<>>
    /\ UNCHANGED document

\* GET /documents/{id}/related/{section_id} for the id of a stored segment.
GetRelatedSections ==
    /\ sim_pc = "ready"
    /\ sim_pc' = "related"
    /\ \E k \in 1..Len(document) :
        /\ related_target' = document[k].id
        /\ related_limit' = ExplicitRelatedLimit
        /\ related_ids' = find_related_sections(document[k], document, ExplicitRelatedLimit)
    /\ query_embedding' = <<>> /\ search_limit' = 0 /\ search_results' = <<>>
    /\ UNCHANGED document

SimNext ==
    \/ SearchDocument /\ UNCHANGED <<structVars, sumVars, relVars, cosVars, olVars, qaVars, rfVars, lkVars, rcVars, ppVars>>
    \/ GetRelatedSections /\ UNCHANGED <<structVars, sumVars, relVars, cosVars, olVars, qaVars, rfVars, lkVars, rcVars, ppVars>>

SearchInit == SimInit /\ StructIdle /\ SumIdle /\ RelIdle /\ CosIdle /\ OlIdle /\ QaIdle /\ RfIdle /\ LkIdle /\ RcIdle /\ PpIdle

SpecSearch == SearchInit /\ [][SimNext]_vars

StructNext ==
    \/ DetectDocumentStructure /\ UNCHANGED <<sumVars, relVars, simVars, cosVars, olVars, qaVars, rfVars, lkVars, rcVars, ppVars>>
    \/ CreateEmbeddingSegments /\ UNCHANGED <<sumVars, relVars, simVars, cosVars, olVars, qaVars, rfVars, lkVars, rcVars, ppVars>>

StructureInit == StructInit /\ SumIdle /\ RelIdle /\ SimIdle /\ CosIdle /\ OlIdle /\ QaIdle /\ RfIdle /\ LkIdle /\ RcIdle /\ PpIdle

SpecStructure == StructureInit /\ [][StructNext]_vars

(***************************************************************************)
(* calculate_similarity on arbitrary vectors (server.py 221-225).          *)
(***************************************************************************)
\* Vectors of one dimension, the zero vector among them.
Vectors(d) == [1..d -> (-MaxCoord)..MaxCoord]

CosInit ==
    /\ cos_pc = "args"
    /\ \E d \in 1..MaxDim : vec_a \in Vectors(d) /\ vec_b \in Vectors(d)
    /\ cos_ab = <<>> /\ cos_ba = <<>>

\* The function applied to the two vectors in both orders.
CalculateSimilarity ==
    /\ cos_pc = "args"
    /\ cos_pc' = "done"
    /\ cos_ab' = calculate_similarity(vec_a, vec_b)
    /\ cos_ba' = calculate_similarity(vec_b, vec_a)
    /\ UNCHANGED <<vec_a, vec_b>>

CosNext == CalculateSimilarity /\ UNCHANGED <<structVars, sumVars, relVars, simVars, olVars, qaVars, rfVars, lkVars, rcVars, ppVars>>

SimilarityInit == CosInit /\ StructIdle /\ SumIdle /\ RelIdle /\ SimIdle /\ OlIdle /\ QaIdle /\ RfIdle /\ LkIdle /\ RcIdle /\ PpIdle

SpecSimilarity == SimilarityInit /\ [][CosNext]_vars

(***************************************************************************)
(* The outline extractor of hackathon_solution.py (PDFOutlineExtractor).   *)
(***************************************************************************)
\* str.lower() on the characters of the model.
LowerChar(c) == IF c \in Upper THEN LowerChars[CHOOSE i \in 1..26 : UpperChars[i] = c] ELSE c

ToLower(s) == [i \in 1..Len(s) |-> LowerChar(s[i])]

\* Regular-expression pieces matched at position from of s: the position after
\* the match, 0 when there is none (or when from = 0, no match so far).
AfterDigits(s, from) ==
    IF from = 0 THEN 0
    ELSE LET k == RunLen(s, from, Digit) IN IF k >= 1 THEN from + k ELSE 0

AfterChar(s, from, c) ==
    IF from = 0 \/ from > Len(s) THEN 0
    ELSE IF s[from] = c THEN from + 1 ELSE 0

AfterSpaces(s, from) ==
    IF from = 0 THEN 0
    ELSE LET m == RunLen(s, from, Space) IN IF m >= 1 THEN from + m ELSE 0

AfterLiteral(s, from, lit) ==
    IF from = 0 THEN 0
    ELSE IF SubSeq(s, from, Min(from + Len(lit) - 1, Len(s))) = lit THEN from + Len(lit)
    ELSE 0

Rest(s, from) == SubSeq(s, from, Len(s))

\* [A-Z][a-z]+(?:\s+[A-Z][a-z]+)*$ on the whole of s
IsTitleWords(s) ==
    LET n == Len(s)
    IN  /\ n >= 2
        /\ s[1] \in Upper
        /\ s[n] \in Lower
        /\ \A i \in 1..n :
             /\ s[i] \in Upper \cup Lower \cup Space
             /\ s[i] \in Upper => (i < n /\ s[i + 1] \in Lower) /\ (i = 1 \/ s[i - 1] \in Space)
             /\ s[i] \in Space => i < n /\ s[i + 1] \in Space \cup Upper
             /\ s[i] \in Lower => i > 1 /\ s[i - 1] \in Upper \cup Lower

\* ... TitleWords$ from position from on
TitleWordsFrom(s, from) == from # 0 /\ IsTitleWords(Rest(s, from))

\* ...[A-Z] at position from
UpperAt(s, from) == from # 0 /\ from <= Len(s) /\ s[from] \in Upper

\* ^KEYWORD\s+\d+
KeywordNumber(s, kw) == AfterDigits(s, AfterSpaces(s, AfterLiteral(s, 1, kw))) # 0

\* ^[A-Z][A-Z\s]{n,}$
IsAllCapsOfLen(s, n) ==
    /\ Len(s) >= n + 1
    /\ s[1] \in Upper
    /\ \A i \in 2..Len(s) : s[i] \in Upper \cup Space

\* \d+\.  \d+\.\d+  \d+\.\d+\.\d+ at the start of s
AfterNumber1(s) == AfterChar(s, AfterDigits(s, 1), ".")
AfterNumber2(s) == AfterDigits(s, AfterNumber1(s))
AfterNumber3(s) == AfterDigits(s, AfterChar(s, AfterNumber2(s), "."))

\* self.heading_patterns (lines 33-51): the k-th pattern and its level.
PatternLevel == <<1, 1, 1, 1, 1, 2, 2, 2, 3, 3, 3, 3>>

PatternMatches(k, line) ==
    CASE k = 1 -> IsAllCapsOfLen(line, 3)
      [] k = 2 -> TitleWordsFrom(line, AfterSpaces(line, AfterNumber1(line)))
      [] k = 3 -> KeywordNumber(line, <<"C", "H", "A", "P", "T", "E", "R">>)
      [] k = 4 -> KeywordNumber(line, <<"S", "E", "C", "T", "I", "O", "N">>)
      [] k = 5 -> KeywordNumber(line, <<"P", "A", "R", "T">>)
      [] k = 6 -> TitleWordsFrom(line, AfterSpaces(line, AfterNumber2(line)))
      [] k = 7 -> Len(line) >= 1 /\ line[Len(line)] = ":"
                    /\ IsTitleWords(SubSeq(line, 1, Len(line) - 1))
      [] k = 8 -> UpperAt(line, AfterSpaces(line, AfterNumber2(line)))
      [] k = 9 -> TitleWordsFrom(line, AfterSpaces(line, AfterNumber3(line)))
      [] k = 10 -> Len(line) >= 1 /\ line[1] \in Lower
                    /\ TitleWordsFrom(line, AfterSpaces(line, AfterChar(line, 2, ")")))
      [] k = 11 -> Len(line) >= 2 /\ line[1] = "(" /\ line[2] \in Lower
                    /\ TitleWordsFrom(line, AfterSpaces(line, AfterChar(line, 3, ")")))
      [] k = 12 -> UpperAt(line, AfterSpaces(line, AfterNumber3(line)))

\* The first pattern that matches, 0 when none does (the loop of line 125).
FirstPattern(line) ==
    LET hits == {k \in 1..Len(PatternLevel) : PatternMatches(k, line)}
    IN  IF hits = {} THEN 0 ELSE CHOOSE k \in hits : \A j \in hits : k <= j

MaxHeadingLen == 150

MaxHeadingWords == <<15, 20, 25>>

\* The non_heading_patterns of lines 145-152 on the lower-cased text.
IsNonHeading(low) ==
    \/ LET a == AfterDigits(low, 1)
       IN  a # 0 /\ \A i \in a..Len(low) : low[i] \in Space
    \/ KeywordNumber(low, <<"p", "a", "g", "e">>)
    \/ LET a == AfterNumber1(low)
       IN  a # 0 /\ \A i \in a..Len(low) : low[i] \in Space
    \/ KeywordNumber(low, <<"f", "i", "g", "u", "r", "e">>)
    \/ KeywordNumber(low, <<"t", "a", "b", "l", "e">>)
    \/ LET a == AfterSpaces(low, AfterLiteral(low, 1, <<"a", "p", "p", "e", "n", "d", "i", "x">>))
       IN  a # 0 /\ a = Len(low) /\ low[a] \in Lower

\* is_valid_heading(text, level)
is_valid_heading(t, level) ==
    IF Len(t) > MaxHeadingLen THEN FALSE
    ELSE IF IsNonHeading(ToLower(t)) THEN FALSE
    ELSE Len(SplitWords(t)) >= 1 /\ Len(SplitWords(t)) <= MaxHeadingWords[level]

LevelName == <<"H1", "H2", "H3">>

\* detect_headings: the loop of lines 111-134 from line i on.  A page marker
\* whose third token is no integer leaves current_page as it is.
RECURSIVE HeadingsLoop(_, _, _, _)
HeadingsLoop(lines, i, current_page, acc) ==
    IF i > Len(lines) THEN acc
    ELSE
        LET line == StripStr(lines[i]) IN
        IF line = <<>> THEN HeadingsLoop(lines, i + 1, current_page, acc)
        ELSE IF StartsWith(line, PageMarkerPrefix) /\ EndsWith(line, PageMarkerSuffix) THEN
            LET tok == SplitWords(line)[3] IN
            HeadingsLoop(lines, i + 1,
                         IF IsIntLiteral(tok) THEN ParseInt(tok) ELSE current_page, acc)
        ELSE
            LET k == FirstPattern(line) IN
            IF k # 0 /\ is_valid_heading(line, PatternLevel[k])
            THEN HeadingsLoop(lines, i + 1, current_page,
                              Append(acc, [level |-> LevelName[PatternLevel[k]],
                                           text |-> line, page |-> current_page]))
            ELSE HeadingsLoop(lines, i + 1, current_page, acc)

detect_headings(t) == HeadingsLoop(SplitLines(t), 1, 1, <<>>)

\* re.sub(r'\s+', ' ', text).strip()
NormalizeSpaces(s) ==
    LET keep == {i \in 1..Len(s) : s[i] \notin Space \/ i = 1 \/ s[i - 1] \notin Space}
        at(k) == CHOOSE p \in keep : Cardinality({q \in keep : q < p}) = k - 1
    IN  StripStr([k \in 1..Cardinality(keep) |->
                     IF s[at(k)] \in Space THEN " " ELSE s[at(k)]])

\* post_process_headings: a heading whose text was seen before is dropped, the
\* text of a kept heading is then normalised.
RECURSIVE PostProcessLoop(_, _, _, _)
PostProcessLoop(headings, i, seen_texts, acc) ==
    IF i > Len(headings) THEN acc
    ELSE IF headings[i].text \in seen_texts
    THEN PostProcessLoop(headings, i + 1, seen_texts, acc)
    ELSE LET cleaned == NormalizeSpaces(headings[i].text) IN
         PostProcessLoop(headings, i + 1, seen_texts \cup {headings[i].text},
                         IF cleaned # <<>>
                         THEN Append(acc, [headings[i] EXCEPT !.text = cleaned])
                         ELSE acc)

post_process_headings(headings) == PostProcessLoop(headings, 1, {}, <<>>)

Page1Marker == <<"-", "-", "-", " ", "P", "a", "g", "e", " ", "1", " ", "-", "-", "-">>
Page2Marker == <<"-", "-", "-", " ", "P", "a", "g", "e", " ", "2", " ", "-", "-", "-">>
UntitledDocument == <<"U", "n", "t", "i", "t", "l", "e", "d", " ", "D", "o", "c", "u", "m", "e", "n", "t">>
ErrorProcessingPdf == <<"E", "r", "r", "o", "r", " ", "P", "r", "o", "c", "e", "s", "s", "i", "n", "g", " ", "P", "D", "F">>

\* The words that rule a line out as a title when among its first two words.
TitleStopWords == {<<"t", "h", "e">>, <<"t", "h", "i", "s">>, <<"t", "h", "a", "t">>, <<"t", "h", "e", "s", "e">>, <<"t", "h", "o", "s", "e">>, <<"a">>, <<"a", "n">>}

\* Lines 75-80: the stripped non-empty lines before the first line that starts
\* with "--- Page 2 ---", the lines starting with "--- Page 1 ---" left out.
RECURSIVE FirstPageLines(_, _, _)
FirstPageLines(lines, i, acc) ==
    IF i > Len(lines) THEN acc
    ELSE IF StartsWith(lines[i], Page2Marker) THEN acc
    ELSE IF ~StartsWith(lines[i], Page1Marker) /\ StripStr(lines[i]) # <<>>
    THEN FirstPageLines(lines, i + 1, Append(acc, StripStr(lines[i])))
    ELSE FirstPageLines(lines, i + 1, acc)

\* self.title_patterns (lines 27-31)
MatchesTitlePattern(line) ==
    \/ IsAllCapsOfLen(line, 5)
    \/ IsTitleWords(line)
    \/ TitleWordsFrom(line, AfterSpaces(line, AfterNumber1(line)))

TitleScanLines == 10
TitleMinLen == 5
TitleMaxLen == 100
TitleMinWords == 2
TitleMaxWords == 10
FallbackMinLen == 10

\* Lines 84-96: the line is returned as the title by the first loop.
LooksLikeTitle(line) ==
    /\ Len(line) > TitleMinLen /\ Len(line) < TitleMaxLen
    /\ \/ MatchesTitlePattern(line)
       \/ LET words == SplitWords(line) IN
          /\ Len(words) >= TitleMinWords /\ Len(words) <= TitleMaxWords
          /\ \A j \in 1..Min(2, Len(words)) : ToLower(words[j]) \notin TitleStopWords
          /\ line[1] \in Upper
          /\ ~EndsWith(line, <<".">>)

\* The first element of s at one of the positions hits, default without one.
FirstAt(s, hits, default) ==
    IF hits = {} THEN default ELSE s[CHOOSE i \in hits : \A j \in hits : i <= j]

\* detect_title(text)
detect_title(t) ==
    LET first_page_lines == FirstPageLines(SplitLines(t), 1, <<>>)
        scanned == Prefix(first_page_lines, TitleScanLines)
        none == <<>>
        found == FirstAt(scanned, {i \in 1..Len(scanned) : LooksLikeTitle(scanned[i])}, none)
    IN  IF found # none THEN found
        ELSE FirstAt(first_page_lines,
                     {i \in 1..Len(first_page_lines) :
                         /\ Len(first_page_lines[i]) > FallbackMinLen
                         /\ Len(first_page_lines[i]) < TitleMaxLen},
                     UntitledDocument)

\* headings.sort(key=lambda x: x["page"])
SortByPage(headings) ==
    StableSort(headings, {p \in Pairs(headings) : headings[p[1]].page < headings[p[2]].page})

\* extract_outline once the text of the PDF is extracted (lines 199-217).
extract_outline(t) ==
    IF t = <<>> THEN [title |-> ErrorProcessingPdf, outline |-> <<>>]
    ELSE [title |-> detect_title(t),
          outline |-> SortByPage(post_process_headings(detect_headings(t)))]

(***************************************************************************)
(* The font-metric outline extractor (round1a/process_pdfs.py 40-135).     *)
(*                                                                         *)
(* A span is what extract_spans returns: its 0-based page, its line key    *)
(* (page, line number in the block), its x origin, its size rounded to one *)
(* decimal (here in tenths of a point), its bold flag and its stripped     *)
(* text of more than one character.  The sizes used are exact in binary,   *)
(* so the float quotient size / body_size compares with the thresholds as  *)
(* the exact quotient does.                                                *)
(***************************************************************************)
\* itemgetter("line", "x") of one span is smaller than that of another.
SpanKeyLess(a, b) ==
    \/ a.line[1] < b.line[1]
    \/ a.line[1] = b.line[1] /\ a.line[2] < b.line[2]
    \/ a.line = b.line /\ a.x < b.x

\* spans.sort(key=itemgetter("line", "x"))
SortSpans(spans) ==
    StableSort(spans, {p \in Pairs(spans) : SpanKeyLess(spans[p[1]], spans[p[2]])})

\* groupby(spans, key=itemgetter("line")): the runs of equal line keys.
RECURSIVE GroupByLine(_)
GroupByLine(spans) ==
    IF spans = <<>> THEN <<>>
    ELSE LET n == CHOOSE k \in 1..Len(spans) :
                    /\ \A i \in 1..k : spans[i].line = spans[1].line
                    /\ k < Len(spans) => spans[k + 1].line # spans[1].line
         IN  <<SubSeq(spans, 1, n)>> \o GroupByLine(SubSeq(spans, n + 1, Len(spans)))

\* max(group_list, key=lambda s: s["size"]): the first span of the largest size.
RefSpan(group_list) ==
    group_list[CHOOSE i \in 1..Len(group_list) :
        /\ \A j \in 1..Len(group_list) : group_list[j].size <= group_list[i].size
        /\ \A j \in 1..(i - 1) : group_list[j].size < group_list[i].size]

\* merge_lines: one line per run, with the joined text and the page, size and
\* bold flag of the reference span; a run whose text strips to nothing is dropped.
merge_lines(spans) ==
    IF spans = <<>> THEN <<>>
    ELSE
        LET groups == GroupByLine(SortSpans(spans))
            merged == [g \in 1..Len(groups) |->
                LET group_list == groups[g]
                    ref_span == RefSpan(group_list)
                IN  [page |-> ref_span.page,
                     text |-> StripStr(JoinSpace([i \in 1..Len(group_list) |-> group_list[i].text])),
                     size |-> ref_span.size,
                     bold |-> ref_span.bold]] \o <<>>
        IN  SelectSeq(merged, LAMBDA ln : ln.text # <<>>)

\* statistics.mode of Python 3.8 and later: the first of the most common values
\* (the StatisticsError branch of lines 82-83 is taken for no non-empty list).
Mode(sizes) ==
    LET count(v) == Cardinality({i \in 1..Len(sizes) : sizes[i] = v})
    IN  sizes[CHOOSE i \in 1..Len(sizes) :
            /\ \A j \in 1..Len(sizes) : count(sizes[j]) <= count(sizes[i])
            /\ \A j \in 1..(i - 1) : count(sizes[j]) < count(sizes[i])]

\* The thresholds of lines 92-98 on size / body_size, in hundredths.
TitleRatio == 180
H1Ratio == 140
H2Ratio == 120
H3Ratio == 105

\* Lines 92-101: the level of a line, "" for a line that is skipped.
LineLevel(ln, body_size) ==
    IF 100 * ln.size >= TitleRatio * body_size THEN "TITLE"
    ELSE IF 100 * ln.size >= H1Ratio * body_size THEN "H1"
    ELSE IF 100 * ln.size >= H2Ratio * body_size THEN "H2"
    ELSE IF 100 * ln.size >= H3Ratio * body_size \/ ln.bold THEN "H3"
    ELSE ""

\* Lines 88-111 from line i on: acc holds title (<<>> for None) and outline.
RECURSIVE ClassifyLoop(_, _, _, _)
ClassifyLoop(lines, i, body_size, acc) ==
    IF i > Len(lines) THEN acc
    ELSE
        LET ln == lines[i]
            level == LineLevel(ln, body_size)
        IN  IF level = "" THEN ClassifyLoop(lines, i + 1, body_size, acc)
            ELSE IF level = "TITLE" /\ acc.title = <<>>
                 THEN ClassifyLoop(lines, i + 1, body_size,
                                   [acc EXCEPT !.title = ln.text])
            ELSE ClassifyLoop(lines, i + 1, body_size,
                              [acc EXCEPT !.outline = @ \o
                                  <<[level |-> level, text |-> ln.text, page |-> ln.page + 1]>>])

\* classify_headings: raised is TRUE for the ZeroDivisionError of line 89 when
\* the body size is 0.
classify_headings(lines) ==
    IF lines = <<>> THEN [raised |-> FALSE, title |-> <<>>, outline |-> <<>>]
    ELSE
        LET sizes == [i \in 1..Len(lines) |-> lines[i].size] \o <<>>
            body_size == Mode(sizes)
        IN  IF body_size = 0 THEN [raised |-> TRUE, title |-> <<>>, outline |-> <<>>]
            ELSE [raised |-> FALSE] @@
                 ClassifyLoop(lines, 1, body_size, [title |-> <<>>, outline |-> <<>>])

\* pdf_path.stem, the name of the file without its suffix.
PdfStem == <<"d", "o", "c">>

\* The variant of process_pdf without the stem in place of a missing title.
process_pdf_title_none(spans) ==
    LET classified == classify_headings(merge_lines(spans))
    IN  [title |-> classified.title, outline |-> classified.outline]

\* process_pdf once the spans are extracted: title or the stem of the file
\* name; any exception gives the stem and an empty outline.
process_pdf(spans) ==
    LET classified == classify_headings(merge_lines(spans))
    IN  IF classified.raised THEN [title |-> PdfStem, outline |-> <<>>]
        ELSE [title |-> IF classified.title = <<>> THEN PdfStem ELSE classified.title,
              outline |-> classified.outline]

\* Spans as extract_spans returns them.
SpanPool ==
    { [page |-> 0, line |-> <<0, 1>>, x |-> 0, size |-> 100, bold |-> FALSE, text |-> <<"A", "b">>],
      [page |-> 0, line |-> <<0, 1>>, x |-> 1, size |-> 105, bold |-> TRUE, text |-> <<"C", "d">>],
      [page |-> 0, line |-> <<0, 2>>, x |-> 0, size |-> 180, bold |-> FALSE, text |-> <<"E", "f">>],
      [page |-> 0, line |-> <<0, 2>>, x |-> 1, size |-> 100, bold |-> TRUE, text |-> <<"G", "h">>],
      [page |-> 0, line |-> <<0, 3>>, x |-> 0, size |-> 120, bold |-> TRUE, text |-> <<"I", "j">>],
      [page |-> 1, line |-> <<1, 1>>, x |-> 0, size |-> 200, bold |-> FALSE, text |-> <<"K", "l">>],
      [page |-> 1, line |-> <<1, 2>>, x |-> 0, size |-> 140, bold |-> FALSE, text |-> <<"M", "n">>],
      [page |-> 1, line |-> <<1, 3>>, x |-> 0, size |-> 0, bold |-> FALSE, text |-> <<"O", "p">>] }

SpanLists == UNION {[1..k -> SpanPool] : k \in 0..MaxSpans}

(***************************************************************************)
(* Outline extraction over one input (hackathon_solution.py 195-217 and,   *)
(* on the same text, server.py 130-178).                                   *)
(***************************************************************************)
OutlineLinePool ==
    { <<>>,
      <<" ", " ">>,
      <<"-", "-", "-", " ", "P", "a", "g", "e", " ", "2", " ", "-", "-", "-">>,
      <<"-", "-", "-", " ", "P", "a", "g", "e", " ", "x", " ", "-", "-", "-">>,
      <<"1", ".", " ", "A", "b">>,
      <<"1", ".", " ", "A", "b", " ", "c", "d">>,
      <<"1", ".", " ", "A">>,
      <<"1", ".", "1", " ", "A", "b">>,
      <<"1", ".", "1", " ", "a", "b">>,
      <<"A", "b", ".">>,
      <<"A", "B", " ", "C", "D">>,
      <<"A", "b", " ", "C", "d", ":">>,
      <<"A", "b", " ", " ", "C", "d", ":">>,
      <<"A", "P", "P", "E", "N", "D", "I", "X", " ", "A">>,
      <<"A", "b", "c", " ", "d", "e", "f", " ", "g", "h", "i", "j", "k">>,
      <<"t", "h", "e", " ", "r", "e", "p", "o", "r", "t">>,
      <<"t", "h", "e", " ", "r", "e", "p", "o", "r", "t", "s">> }

\* The example text of the specification of the pattern strategy.
ExampleText ==
    << "1", ".", " ", "I", "n", "t", "r", "o", "d", "u", "c", "t",
       "i", "o", "n", "\n", "T", "h", "i", "s", " ", "i", "s", " ",
       "a", " ", "t", "e", "s", "t", " ", "p", "a", "r", "a", "g",
       "r", "a", "p", "h", " ", "w", "i", "t", "h", " ", "e", "n",
       "o", "u", "g", "h", " ", "w", "o", "r", "d", "s", " ", "t",
       "o", " ", "c", "o", "u", "n", "t", ".", "\n", "1", ".", "1",
       " ", "O", "v", "e", "r", "v", "i", "e", "w", "\n", "S", "h",
       "o", "r", "t", "." >>

OutlineTexts ==
    {JoinLines(ls) : ls \in UNION {[1..k -> OutlineLinePool] : k \in 0..MaxOutlineLines}}
    \cup {ExampleText}

\* The input is the text of a PDF or the spans of a PDF.
OlInit ==
    /\ \/ ol_pc = "text" /\ ol_text \in OutlineTexts /\ ol_spans = <<>>
       \/ ol_pc = "spans" /\ ol_text = <<>> /\ ol_spans \in SpanLists
    /\ ol_result = <<>>
    /\ ol_structure = <<>>

\* PDFOutlineExtractor.extract_outline on the extracted text.
ExtractOutline ==
    /\ ol_pc = "text"
    /\ ol_pc' = "outlined"
    /\ ol_result' = extract_outline(ol_text)
    /\ UNCHANGED <<ol_text, ol_spans, ol_structure>>

\* process_pdf of round1a on the extracted spans.
ProcessPdf ==
    /\ ol_pc = "spans"
    /\ ol_pc' = "processed"
    /\ ol_result' = process_pdf(ol_spans)
    /\ UNCHANGED <<ol_text, ol_spans, ol_structure>>

\* detect_document_structure of the backend on the same text.
DetectStructureOfText ==
    /\ ol_pc = "text"
    /\ ol_pc' = "structured"
    /\ ol_structure' = detect_document_structure(ol_text, 0)
    /\ UNCHANGED <<ol_text, ol_spans, ol_result>>

OlNext ==
    \/ ExtractOutline /\ UNCHANGED <<structVars, sumVars, relVars, simVars, cosVars, qaVars, rfVars, lkVars, rcVars, ppVars>>
    \/ DetectStructureOfText /\ UNCHANGED <<structVars, sumVars, relVars, simVars, cosVars, qaVars, rfVars, lkVars, rcVars, ppVars>>
    \/ ProcessPdf /\ UNCHANGED <<structVars, sumVars, relVars, simVars, cosVars, qaVars, rfVars, lkVars, rcVars, ppVars>>

OutlineInit == OlInit /\ StructIdle /\ SumIdle /\ RelIdle /\ SimIdle /\ CosIdle /\ QaIdle /\ RfIdle /\ LkIdle /\ RcIdle /\ PpIdle

SpecOutline == OutlineInit /\ [][OlNext]_vars

(***************************************************************************)
(* answer_question_offline (server.py 308-352).                            *)
(*                                                                         *)
(* The NLTK tokenizers are external: a question is given as the tokens of  *)
(* word_tokenize(question.lower()); a segment as its content together with *)
(* the tokens of word_tokenize(content.lower()) and with the sentences of  *)
(* sent_tokenize(content), each with the tokens of its lower-cased text.   *)
(***************************************************************************)
\* stopwords.words('english'), as far as the tokens of the model go.
EnglishStopWords == {"what", "is", "the", "of", "it"}

\* Tokens for which str.isalpha() is false.
NonAlphaTokens == {"?", ".", "!", "42"}

CouldNotUnderstand ==
        << "I", " ", "c", "o", "u", "l", "d", "n", "'", "t", " ", "u", "n", "d",
       "e", "r", "s", "t", "a", "n", "d", " ", "t", "h", "e", " ", "q", "u",
       "e", "s", "t", "i", "o", "n", ".", " ", "P", "l", "e", "a", "s", "e",
       " ", "t", "r", "y", " ", "r", "e", "p", "h", "r", "a", "s", "i", "n",
       "g", " ", "i", "t", "." >>

CouldNotFind ==
        << "I", " ", "c", "o", "u", "l", "d", "n", "'", "t", " ", "f", "i", "n",
       "d", " ", "r", "e", "l", "e", "v", "a", "n", "t", " ", "i", "n", "f",
       "o", "r", "m", "a", "t", "i", "o", "n", " ", "t", "o", " ", "a", "n",
       "s", "w", "e", "r", " ", "y", "o", "u", "r", " ", "q", "u", "e", "s",
       "t", "i", "o", "n", "." >>

Ellipsis == <<".", ".", ".">>

AnswerSentences == 3
FallbackChars == 500

\* The keywords without the removal of the stop-words.
QuestionWordsWithStopWords(tokens) ==
    {tokens[i] : i \in 1..Len(tokens)} \ NonAlphaTokens

\* Lines 311-312: the keywords of the question.
QuestionWords(tokens) ==
    {tokens[i] : i \in 1..Len(tokens)} \ (EnglishStopWords \cup NonAlphaTokens)

\* The candidates without the test overlap > 0.
BestMatchesAll(question_words, segs) ==
    [k \in 1..Len(segs) |->
        [segment |-> segs[k],
         overlap |-> Cardinality(segs[k].words \cap question_words)]] \o <<>>

\* Lines 318-327: the segments whose words overlap the keywords, with the overlap.
BestMatches(question_words, segs) ==
    LET hit == {i \in 1..Len(segs) : segs[i].words \cap question_words # {}}
        at(k) == CHOOSE p \in hit : Cardinality({q \in hit : q < p}) = k - 1
    IN  [k \in 1..Cardinality(hit) |->
            [segment |-> segs[at(k)],
             overlap |-> Cardinality(segs[at(k)].words \cap question_words)]] \o <<>>

\* Lines 339-345: the sentences that share a token with the keywords, in order.
RelevantSentences(question_words, segment) ==
    LET rel == SelectSeq(segment.sentences, LAMBDA sen : sen.words \cap question_words # {})
    IN  [i \in 1..Len(rel) |-> rel[i].text]

\* Lines 332-352 with the last candidate taken instead of the best one.
AnswerFromLast(question_words, best_matches) ==
    LET best_segment == best_matches[Len(best_matches)].segment
        relevant_sentences == RelevantSentences(question_words, best_segment)
    IN  IF relevant_sentences # <<>>
        THEN JoinSpace(Prefix(relevant_sentences, AnswerSentences))
        ELSE Prefix(best_segment.content, FallbackChars) \o Ellipsis

\* Lines 332-352: the answer from the best candidate.  The scores
\* overlap / len(question_words) have one denominator, so they compare as the
\* overlaps do.
AnswerFromBest(question_words, best_matches) ==
    LET sorted == StableSort(best_matches, {p \in Pairs(best_matches) :
                      best_matches[p[1]].overlap > best_matches[p[2]].overlap})
        best_segment == sorted[1].segment
        relevant_sentences == RelevantSentences(question_words, best_segment)
    IN  IF relevant_sentences # <<>>
        THEN JoinSpace(Prefix(relevant_sentences, AnswerSentences))
        ELSE Prefix(best_segment.content, FallbackChars) \o Ellipsis

\* answer_question_offline(question, context_segments); examined counts the
\* segments the loop of line 319 went through.
answer_question_offline(tokens, segs) ==
    LET question_words == QuestionWords(tokens) IN
    IF question_words = {} THEN [answer |-> CouldNotUnderstand, examined |-> 0]
    ELSE LET best_matches == BestMatches(question_words, segs) IN
         IF best_matches = <<>> THEN [answer |-> CouldNotFind, examined |-> Len(segs)]
         ELSE [answer |-> AnswerFromBest(question_words, best_matches),
               examined |-> Len(segs)]

QuestionPool ==
    { <<>>,
      <<"what", "is", "the", "?">>,
      <<"what", "is", "the", "capital", "of", "nowhere", "?">>,
      <<"paris", "42">>,
      <<"capital", "paris">> }

\* The last two segments are tokenised inconsistently: the tokens of the
\* content hold a word that the tokens of no sentence hold.
SegmentPool ==
    { [content |-> <<"P", "a", "r", "i", "s", " ", "i", "s", " ", "t", "h", "e", " ", "c", "a", "p", "i", "t", "a", "l", ".", " ", "I", "t", " ", "i", "s", " ", "b", "i", "g", ".">>,
       words |-> {".", "big", "capital", "is", "it", "paris", "the"},
       sentences |-> <<
             [text |-> <<"P", "a", "r", "i", "s", " ", "i", "s", " ", "t", "h", "e", " ", "c", "a", "p", "i", "t", "a", "l", ".">>,
              words |-> {".", "capital", "is", "paris", "the"}],
             [text |-> <<"I", "t", " ", "i", "s", " ", "b", "i", "g", ".">>,
              words |-> {".", "big", "is", "it"}] >>],
      [content |-> <<"R", "o", "m", "e", ".", " ", "C", "a", "p", "i", "t", "a", "l", " ", "c", "i", "t", "y", ".", " ", "O", "l", "d", " ", "c", "a", "p", "i", "t", "a", "l", ".", " ", "T", "h", "e", " ", "c", "a", "p", "i", "t", "a", "l", "?", " ", "P", "a", "r", "i", "s", ".">>,
       words |-> {".", "?", "capital", "city", "old", "paris", "rome", "the"},
       sentences |-> <<
             [text |-> <<"R", "o", "m", "e", ".">>,
              words |-> {".", "rome"}],
             [text |-> <<"C", "a", "p", "i", "t", "a", "l", " ", "c", "i", "t", "y", ".">>,
              words |-> {".", "capital", "city"}],
             [text |-> <<"O", "l", "d", " ", "c", "a", "p", "i", "t", "a", "l", ".">>,
              words |-> {".", "capital", "old"}],
             [text |-> <<"T", "h", "e", " ", "c", "a", "p", "i", "t", "a", "l", "?">>,
              words |-> {"?", "capital", "the"}],
             [text |-> <<"P", "a", "r", "i", "s", ".">>,
              words |-> {".", "paris"}] >>],
      [content |-> <<"N", "o", "t", "h", "i", "n", "g", " ", "h", "e", "r", "e", ".">>,
       words |-> {".", "here", "nothing"},
       sentences |-> <<
             [text |-> <<"N", "o", "t", "h", "i", "n", "g", " ", "h", "e", "r", "e", ".">>,
              words |-> {".", "here", "nothing"}] >>],
      [content |-> (<<"c", "a", "p", "i", "t", "a", "l", " ">> \o Rep("x", 600)),
       words |-> {"capital"},
       sentences |-> << [text |-> (<<"c", "a", "p", "i", "t", "a", "l", " ">> \o Rep("x", 600)),
              words |-> {}] >>],
      [content |-> <<"I", "n", " ", "P", "a", "r", "i", "s">>,
       words |-> {"paris"},
       sentences |-> << [text |-> <<"I", "n", " ", "P", "a", "r", "i", "s">>,
              words |-> {}] >>] }

QaInit ==
    /\ qa_pc = "asked"
    /\ question \in QuestionPool
    /\ context_segments \in UNION {[1..k -> SegmentPool] : k \in 0..MaxContexts}
    /\ answer = <<>>
    /\ qa_examined = 0

AnswerQuestionOffline ==
    /\ qa_pc = "asked"
    /\ qa_pc' = "answered"
    /\ answer' = answer_question_offline(question, context_segments).answer
    /\ qa_examined' = answer_question_offline(question, context_segments).examined
    /\ UNCHANGED <<question, context_segments>>

QaNext == AnswerQuestionOffline /\ UNCHANGED <<structVars, sumVars, relVars, simVars, cosVars, olVars, rfVars, lkVars, rcVars, ppVars>>

QuestionInit == QaInit /\ StructIdle /\ SumIdle /\ RelIdle /\ SimIdle /\ CosIdle /\ OlIdle /\ RfIdle /\ LkIdle /\ RcIdle /\ PpIdle

SpecQuestion == QuestionInit /\ [][QaNext]_vars

(***************************************************************************)
(* refine_section_content (round1b/persona_processor.py 188-221).          *)
(*                                                                         *)
(* The content of a section is a string of characters; the keywords of the *)
(* persona and of the job are sets of lower-case words.                    *)
(***************************************************************************)
SentenceEnd == {".", "!", "?"}
WordChar == Upper \cup Lower \cup Digit \cup {"_"}

\* The maximal runs of s over the positions of the set keep, in order.
Runs(s, keep) ==
    LET n == Len(s)
        starts == {i \in keep : i = 1 \/ (i - 1) \notin keep}
        startOf(k) == CHOOSE p \in starts : Cardinality({q \in starts : q < p}) = k - 1
        endOf(p) == CHOOSE e \in p..n :
                        /\ (e = n \/ (e + 1) \notin keep)
                        /\ \A j \in p..e : j \in keep
    IN  [k \in 1..Cardinality(starts) |-> SubSeq(s, startOf(k), endOf(startOf(k)))] \o <<>>

\* re.split(r'[.!?]+', content) without the empty pieces, which line 199 skips.
SplitSentences(content) ==
    Runs(content, {i \in 1..Len(content) : content[i] \notin SentenceEnd})

\* re.findall(r'\b\w{3,}\b', sentence.lower())
SentenceWords(sentence) ==
    LET low == ToLower(sentence)
    IN  SelectSeq(Runs(low, {i \in 1..Len(low) : low[i] \in WordChar}),
                  LAMBDA w : Len(w) >= MinWordLen)

MinSentenceLen == 10    \* len(sentence.strip()) < 10
PersonaWeight == 2      \* persona_matches * 2
JobWeight == 3          \* job_matches * 3
TopSentences == 3       \* scored_sentences[:3]
EllipsisLen == 3        \* refined_content[:max_chars-3]

\* Lines 207-209: the score of a sentence.
SentenceScore(sentence, keywords) ==
    LET words == SentenceWords(sentence)
        persona_matches == Cardinality({i \in 1..Len(words) : words[i] \in keywords.persona})
        job_matches == Cardinality({i \in 1..Len(words) : words[i] \in keywords.job})
    IN  persona_matches * PersonaWeight + job_matches * JobWeight

\* Lines 198-211: the stripped sentences of at least 10 characters, scored.
ScoredSentences(content, keywords) ==
    LET kept == SelectSeq(SplitSentences(content),
                          LAMBDA sentence : Len(StripStr(sentence)) >= MinSentenceLen)
    IN  [i \in 1..Len(kept) |->
            [score |-> SentenceScore(kept[i], keywords), text |-> StripStr(kept[i])]] \o <<>>

\* '. '.join(parts)
RECURSIVE JoinDotSpace(_)
JoinDotSpace(parts) ==
    IF Len(parts) = 0 THEN <<>>
    ELSE IF Len(parts) = 1 THEN parts[1]
    ELSE parts[1] \o <<".", " ">> \o JoinDotSpace(Tail(parts))

\* Lines 214-215: scored_sentences.sort(key=score, reverse=True), a stable
\* sort, and the first three.
SelectedSentences(scored) ==
    Prefix(StableSort(scored, {p \in Pairs(scored) : scored[p[1]].score > scored[p[2]].score}),
           TopSentences)

refine_section_content(sec, maxchars, keywords) ==
    LET content == sec.content IN
    IF Len(content) <= maxchars THEN content
    ELSE
        LET selected == SelectedSentences(ScoredSentences(content, keywords))
            joined == JoinDotSpace([i \in 1..Len(selected) |-> selected[i].text])
        IN  IF Len(joined) > maxchars
            THEN Prefix(joined, maxchars - EllipsisLen) \o Ellipsis
            ELSE joined

\* Contents of sections: empty, short, with sentences of different scores,
\* with sentences of equal score, with short sentences only.
RefineContentPool ==
    { <<>>,
      <<"S", "h", "o", "r", "t", " ", "o", "n", "e", ".">>,
      <<"P", "l", "a", "n", " ", "t", "h", "e", " ", "b", "u", "d", "g", "e", "t", " ", "n", "o", "w", ".", " ", "B", "o", "o", "k", " ", "a", " ", "h", "o", "t", "e", "l", " ", "t", "o", "d", "a", "y", "!", " ", "E", "t", "c", ".", " ", "T", "r", "a", "v", "e", "l", " ", "b", "u", "d", "g", "e", "t", " ", "h", "o", "t", "e", "l", "?", " ", "T", "h", "e", " ", "w", "e", "a", "t", "h", "e", "r", " ", "i", "s", " ", "n", "i", "c", "e">>,
      <<"B", "u", "d", "g", "e", "t", " ", "a", "l", "p", "h", "a", " ", "b", "e", "t", "a", ".", " ", "B", "u", "d", "g", "e", "t", " ", "g", "a", "m", "m", "a", " ", "d", "e", "l", "t", "a", ".", " ", "B", "u", "d", "g", "e", "t", " ", "e", "p", "s", "i", "l", "o", "n", " ", "z", "e", "t", "a", ".", " ", "B", "u", "d", "g", "e", "t", " ", "e", "t", "a", " ", "t", "h", "e", "t", "a">>,
      <<"A", " ", "b", ".", " ", "C", " ", "d", ".", " ", "E", " ", "f", ".", " ", "G", " ", "h", ".", " ", "I", " ", "j", ".", " ", "K", " ", "l", ".">> }

MaxCharsPool == {2, 20, 40, 70, 500}

KeywordsPool ==
    { [persona |-> {}, job |-> {}],
      [persona |-> {<<"t", "r", "a", "v", "e", "l">>, <<"h", "o", "t", "e", "l">>}, job |-> {}],
      [persona |-> {}, job |-> {<<"b", "u", "d", "g", "e", "t">>}],
      [persona |-> {<<"t", "r", "a", "v", "e", "l">>, <<"h", "o", "t", "e", "l">>}, job |-> {<<"b", "u", "d", "g", "e", "t">>}] }

RfInit ==
    /\ rf_pc = "args"
    /\ \E content \in RefineContentPool : rf_section = [content |-> content]
    /\ rf_max_chars \in MaxCharsPool
    /\ rf_keywords \in KeywordsPool
    /\ refined_content = <<>>

RefineSectionContent ==
    /\ rf_pc = "args"
    /\ rf_pc' = "refined"
    /\ refined_content' = refine_section_content(rf_section, rf_max_chars, rf_keywords)
    /\ UNCHANGED <<rf_section, rf_max_chars, rf_keywords>>

RfNext == RefineSectionContent /\ UNCHANGED <<structVars, sumVars, relVars, simVars, cosVars, olVars, qaVars, lkVars, rcVars, ppVars>>

RefineInit == RfInit /\ StructIdle /\ SumIdle /\ RelIdle /\ SimIdle /\ CosIdle /\ OlIdle /\ QaIdle /\ LkIdle /\ RcIdle /\ PpIdle

SpecRefine == RefineInit /\ [][RfNext]_vars

(***************************************************************************)
(* The endpoints that look a document up (server.py 389-544).              *)
(*                                                                         *)
(* A stored document has its id, its embedding_segments and the presence   *)
(* of its pdf_base64 field.  A response is the status, the detail of an    *)
(* HTTPException and the body: <<>> for an exception, otherwise one record *)
(* with what the handler looked up and ranked.  The summary and the answer *)
(* computed from it are those of SpecSummary and SpecQuestion.             *)
(***************************************************************************)
\* db.documents.find_one({'id': document_id}): the matches, of which the
\* first is returned; none for None.
FindOneAny(documents, document_id) == documents

FindOne(documents, document_id) ==
    SelectSeq(documents, LAMBDA doc : doc.id = document_id)

\* next((s for s in document['embedding_segments'] if s['id'] == section_id), None)
FindSection(doc, section_id) ==
    SelectSeq(doc.embedding_segments, LAMBDA seg : seg.id = section_id)

NoSectionId == 0       \* section_id None or '': not request.section_id
StatusOk == 200
StatusNotFound == 404

DocumentNotFound == [status |-> StatusNotFound, detail |-> "Document not found", body |-> <<>>]
SectionNotFound == [status |-> StatusNotFound, detail |-> "Section not found", body |-> <<>>]
PdfNotAvailable == [status |-> StatusNotFound, detail |-> "PDF content not available", body |-> <<>>]
Ok(body) == [status |-> StatusOk, detail |-> "", body |-> <<body>>]

\* Lines 389-396.
get_document(documents, req) ==
    LET found == FindOne(documents, req.document_id)
    IN  IF found = <<>> THEN DocumentNotFound ELSE Ok([document |-> found[1]])

\* Lines 404-433.
search_document_endpoint(documents, req) ==
    LET found == FindOne(documents, req.document_id)
    IN  IF found = <<>> THEN DocumentNotFound
        ELSE Ok([results |-> search_document(found[1].embedding_segments, req.query, req.limit)])

\* Lines 435-453: the content summarised is the section's or the document's.
summarize_document(documents, req) ==
    LET found == FindOne(documents, req.document_id)
    IN  IF found = <<>> THEN DocumentNotFound
        ELSE IF req.section_id # NoSectionId
        THEN LET section == FindSection(found[1], req.section_id)
             IN  IF section = <<>> THEN SectionNotFound
                 ELSE Ok([summary_of |-> "section", id |-> section[1].id])
        ELSE Ok([summary_of |-> "document", id |-> found[1].id])

\* Lines 468-499: the contexts sorted by similarity, the first context_limit kept.
answer_question(documents, req) ==
    LET found == FindOne(documents, req.document_id)
    IN  IF found = <<>> THEN DocumentNotFound
        ELSE LET segs == found[1].embedding_segments
                 contexts == [i \in 1..Len(segs) |->
                     <<segs[i].id, calculate_similarity(req.query, segs[i].embedding)>>] \o <<>>
                 top_contexts == Prefix(StableSort(contexts, {p \in Pairs(contexts) :
                                     SimGreater(contexts[p[1]][2], contexts[p[2]][2])}), req.limit)
             IN  Ok([relevant_sections |-> [i \in 1..Len(top_contexts) |-> top_contexts[i][1]]])

\* Lines 503-529.
get_related_sections(documents, req) ==
    LET found == FindOne(documents, req.document_id)
    IN  IF found = <<>> THEN DocumentNotFound
        ELSE LET target_section == FindSection(found[1], req.section_id)
             IN  IF target_section = <<>> THEN SectionNotFound
                 ELSE Ok([related_sections |->
                        find_related_sections(target_section[1], found[1].embedding_segments,
                                              ExplicitRelatedLimit)])

\* Lines 531-544.
get_pdf_content(documents, req) ==
    LET found == FindOne(documents, req.document_id)
    IN  IF found = <<>> THEN DocumentNotFound
        ELSE IF ~found[1].has_pdf THEN PdfNotAvailable
        ELSE Ok([pdf_of |-> found[1].id])

\* Stored documents: the ids of documents and of segments are distinct uuids.
DocumentPool ==
    { [id |-> 101, has_pdf |-> TRUE,
       embedding_segments |-> << [id |-> Uuid4(1), embedding |-> <<1, 0>>],
                                 [id |-> Uuid4(2), embedding |-> <<1, 1>>] >>],
      [id |-> 102, has_pdf |-> FALSE,
       embedding_segments |-> << [id |-> Uuid4(3), embedding |-> <<1, 0>>] >>] }

Stores ==
    {st \in UNION {[1..n -> DocumentPool] : n \in 0..MaxDocuments} :
        \A i, j \in 1..Len(st) : i # j => st[i].id # st[j].id}

\* Ids asked for: of stored documents and segments, and of none.
DocumentIds == {101, 102, 199}
SectionIds == {Uuid4(1), Uuid4(3), 99}

Request(endpoint, document_id, section_id, query, limit) ==
    [endpoint |-> endpoint, document_id |-> document_id, section_id |-> section_id,
     query |-> query, limit |-> limit]

LkInit ==
    /\ lk_pc = "ready"
    /\ db_documents \in Stores
    /\ request = <<>>
    /\ response = <<>>

\* One request is answered; no handler writes to db.documents.
Respond(req, resp) ==
    /\ lk_pc = "ready"
    /\ lk_pc' = "responded"
    /\ request' = req
    /\ response' = resp
    /\ UNCHANGED db_documents

GetDocument ==
    \E d \in DocumentIds :
        LET req == Request("get", d, NoSectionId, <<>>, 0)
        IN  Respond(req, get_document(db_documents, req))

SearchDocumentById ==
    \E d \in DocumentIds, q \in EmbeddingPool, limit \in 1..MaxLimit :
        LET req == Request("search", d, NoSectionId, q, limit)
        IN  Respond(req, search_document_endpoint(db_documents, req))

SummarizeDocument ==
    \E d \in DocumentIds, sid \in SectionIds \cup {NoSectionId} :
        LET req == Request("summarize", d, sid, <<>>, 0)
        IN  Respond(req, summarize_document(db_documents, req))

AnswerQuestion ==
    \E d \in DocumentIds, q \in EmbeddingPool, limit \in 1..MaxLimit :
        LET req == Request("qa", d, NoSectionId, q, limit)
        IN  Respond(req, answer_question(db_documents, req))

GetRelatedSectionsById ==
    \E d \in DocumentIds, sid \in SectionIds :
        LET req == Request("related", d, sid, <<>>, 0)
        IN  Respond(req, get_related_sections(db_documents, req))

GetPdfContent ==
    \E d \in DocumentIds :
        LET req == Request("pdf", d, NoSectionId, <<>>, 0)
        IN  Respond(req, get_pdf_content(db_documents, req))

LkNext ==
    \/ GetDocument /\ UNCHANGED <<structVars, sumVars, relVars, simVars, cosVars, olVars, qaVars, rfVars, rcVars, ppVars>>
    \/ SearchDocumentById /\ UNCHANGED <<structVars, sumVars, relVars, simVars, cosVars, olVars, qaVars, rfVars, rcVars, ppVars>>
    \/ SummarizeDocument /\ UNCHANGED <<structVars, sumVars, relVars, simVars, cosVars, olVars, qaVars, rfVars, rcVars, ppVars>>
    \/ AnswerQuestion /\ UNCHANGED <<structVars, sumVars, relVars, simVars, cosVars, olVars, qaVars, rfVars, rcVars, ppVars>>
    \/ GetRelatedSectionsById /\ UNCHANGED <<structVars, sumVars, relVars, simVars, cosVars, olVars, qaVars, rfVars, rcVars, ppVars>>
    \/ GetPdfContent /\ UNCHANGED <<structVars, sumVars, relVars, simVars, cosVars, olVars, qaVars, rfVars, rcVars, ppVars>>

LookupInit == LkInit /\ StructIdle /\ SumIdle /\ RelIdle /\ SimIdle /\ CosIdle /\ OlIdle /\ QaIdle /\ RfIdle /\ RcIdle /\ PpIdle

SpecLookup == LookupInit /\ [][LkNext]_vars

(***************************************************************************)
(* Recomputation: detect_document_structure and create_embedding_segments  *)
(* run twice on the same text (server.py 130-219, 367-371).  The uuid4()   *)
(* values of the second run differ from those of the first.                *)
(***************************************************************************)
\* Lines 367-371 with n uuid4() values drawn before: ok is FALSE when
\* detect_document_structure raised.
RunPipeline(t, n) ==
    LET detected == detect_document_structure(t, n)
    IN  IF ~detected.ok
        THEN [ok |-> FALSE, structure |-> <<>>, segments |-> <<>>, drawn |-> detected.drawn]
        ELSE LET created == create_embedding_segments(t, detected.structure, detected.drawn)
             IN  [ok |-> TRUE, structure |-> detected.structure,
                  segments |-> created.segments, drawn |-> created.drawn]

RcInit ==
    /\ rc_pc = "text"
    /\ rc_text \in InputTexts
    /\ rc_drawn = 0
    /\ first_run = <<>>
    /\ second_run = <<>>

RunFirst ==
    /\ rc_pc = "text"
    /\ rc_pc' = "once"
    /\ LET r == RunPipeline(rc_text, rc_drawn) IN
        /\ first_run' = [ok |-> r.ok, structure |-> r.structure, segments |-> r.segments]
        /\ rc_drawn' = r.drawn
    /\ UNCHANGED <<rc_text, second_run>>

RunSecond ==
    /\ rc_pc = "once"
    /\ rc_pc' = "twice"
    /\ LET r == RunPipeline(rc_text, rc_drawn) IN
        /\ second_run' = [ok |-> r.ok, structure |-> r.structure, segments |-> r.segments]
        /\ rc_drawn' = r.drawn
    /\ UNCHANGED <<rc_text, first_run>>

RcNext ==
    \/ RunFirst /\ UNCHANGED <<structVars, sumVars, relVars, simVars, cosVars, olVars, qaVars, rfVars, lkVars, ppVars>>
    \/ RunSecond /\ UNCHANGED <<structVars, sumVars, relVars, simVars, cosVars, olVars, qaVars, rfVars, lkVars, ppVars>>

RecomputeInit == RcInit /\ StructIdle /\ SumIdle /\ RelIdle /\ SimIdle /\ CosIdle /\ OlIdle /\ QaIdle /\ RfIdle /\ LkIdle /\ PpIdle

SpecRecompute == RecomputeInit /\ [][RcNext]_vars

(***************************************************************************)
(* process_persona_documents and load_persona_and_job                      *)
(* (persona_processor.py 22-74, 223-306).                                  *)
(*                                                                         *)
(* A JSON file is missing, unreadable (open or json.load raises) or holds  *)
(* an object, the set of its fields with their string values.  A section   *)
(* carries the relevance_score that calculate_relevance_score gave it, as  *)
(* 10 times the score.  The processing_timestamp of the output, a clock    *)
(* reading, is left out.                                                   *)
(***************************************************************************)
MaxSectionsPerRun == 6

TopSectionCount == 5       \* all_sections[:5]
DefaultMaxChars == 500     \* refine_section_content(self, section, max_chars=500)

persona_text_fields ==
    {"description", "background", "goals", "pain_points", "interests", "role", "title"}

job_text_fields ==
    {"description", "requirements", "responsibilities", "objectives", "deliverables",
     "title", "goals"}

common_words ==
    { <<"t", "h", "e">>, <<"a", "n", "d">>, <<"b", "u", "t">>,
      <<"f", "o", "r">>, <<"a", "r", "e">>, <<"w", "i", "t", "h">>,
      <<"t", "h", "i", "s">>, <<"t", "h", "a", "t">>, <<"h", "a", "v", "e">>,
      <<"f", "r", "o", "m">>, <<"t", "h", "e", "y">>, <<"k", "n", "o", "w">>,
      <<"w", "a", "n", "t">>, <<"b", "e", "e", "n">>, <<"g", "o", "o", "d">>,
      <<"m", "u", "c", "h">>, <<"s", "o", "m", "e">>, <<"t", "i", "m", "e">>,
      <<"v", "e", "r", "y">>, <<"w", "h", "e", "n">>, <<"c", "o", "m", "e">>,
      <<"h", "e", "r", "e">>, <<"j", "u", "s", "t">>, <<"l", "i", "k", "e">>,
      <<"l", "o", "n", "g">>, <<"m", "a", "k", "e">>, <<"m", "a", "n", "y">>,
      <<"o", "v", "e", "r">>, <<"s", "u", "c", "h">>, <<"t", "a", "k", "e">>,
      <<"t", "h", "a", "n">>, <<"t", "h", "e", "m">>, <<"w", "e", "l", "l">>,
      <<"w", "o", "r", "k">> }

\* field in data
HasField(data, field) == \E e \in data : e.field = field

\* data[field]
FieldText(data, field) == (CHOOSE e \in data : e.field = field).text

\* data.get(field, default)
GetField(data, field, default) ==
    IF HasField(data, field) THEN FieldText(data, field) ELSE default

\* Lines 45-58 and 61-74: the words of three characters or more of the
\* listed fields, lower-cased, without the common words, as a set.
ExtractKeywords(data, text_fields) ==
    LET texts == {e.text : e \in {d \in data : d.field \in text_fields}}
        words == UNION {{SentenceWords(t)[i] : i \in 1..Len(SentenceWords(t))} : t \in texts}
    IN  words \ common_words

extract_persona_keywords(persona_data) == ExtractKeywords(persona_data, persona_text_fields)

extract_job_keywords(job_data) == ExtractKeywords(job_data, job_text_fields)

\* Lines 22-42.  A file that is unreadable raises inside the try; a file that
\* is missing leaves persona_data or job_data unbound, and the return
\* statement of line 38 raises; either way line 42 returns ({}, {}), with
\* the keywords that were set before the exception.
load_persona_and_job(proc, pfile, jfile) ==
    LET failed(pk, jk) == [persona_data |-> {}, job_data |-> {},
                           persona_keywords |-> pk, job_keywords |-> jk]
    IN  IF pfile.state = "unreadable"
        THEN failed(proc.persona_keywords, proc.job_keywords)
        ELSE LET pk == IF pfile.state = "json" THEN extract_persona_keywords(pfile.data)
                       ELSE proc.persona_keywords
             IN  IF jfile.state = "unreadable"
                 THEN failed(pk, proc.job_keywords)
                 ELSE LET jk == IF jfile.state = "json" THEN extract_job_keywords(jfile.data)
                                ELSE proc.job_keywords
                      IN  IF pfile.state = "json" /\ jfile.state = "json"
                          THEN [persona_data |-> pfile.data, job_data |-> jfile.data,
                                persona_keywords |-> pk, job_keywords |-> jk]
                          ELSE failed(pk, jk)

\* Line 260: all_sections.sort(key=relevance_score, reverse=True), stable.
SortByRelevanceAscending(sections) ==
    StableSort(sections, {p \in Pairs(sections) :
                    sections[p[1]].relevance_score < sections[p[2]].relevance_score})

SortByRelevance(sections) ==
    StableSort(sections, {p \in Pairs(sections) :
                    sections[p[1]].relevance_score > sections[p[2]].relevance_score})

\* Lines 263-273.
ExtractedSections(top_sections) ==
    [i \in 1..Len(top_sections) |->
        [document |-> top_sections[i].document,
         section_title |-> top_sections[i].title,
         importance_rank |-> i,
         page_number |-> top_sections[i].page_num]] \o <<>>

\* Lines 276-284.
SubsectionAnalysis(top_sections, proc) ==
    [i \in 1..Len(top_sections) |->
        [document |-> top_sections[i].document,
         refined_text |-> refine_section_content(top_sections[i], DefaultMaxChars,
                              [persona |-> proc.persona_keywords, job |-> proc.job_keywords]),
         page_number |-> top_sections[i].page_num]] \o <<>>

\* Lines 244-257: the sections of the files, file after file.
RECURSIVE AllSections(_, _)
AllSections(files, sections) ==
    IF files = <<>> THEN <<>>
    ELSE sections[files[1]] \o AllSections(Tail(files), sections)

\* Lines 259-296: the result written to challenge1b_output.json.
Result(files, sections, proc, data) ==
    LET all_sorted == SortByRelevance(AllSections(files, sections))
        top_sections == Prefix(all_sorted, TopSectionCount)
    IN  [metadata |->
            [input_documents |-> files,
             persona |-> IF data.persona_data # {}
                         THEN GetField(data.persona_data, "title", <<"U", "n", "k", "n", "o", "w", "n">>)
                         ELSE <<"D", "e", "f", "a", "u", "l", "t">>,
             job_to_be_done |-> IF data.job_data # {}
                                THEN GetField(data.job_data, "description", <<"G", "e", "n", "e", "r", "a", "l", " ", "a", "n", "a", "l", "y", "s", "i", "s">>)
                                ELSE <<"D", "o", "c", "u", "m", "e", "n", "t", " ", "a", "n", "a", "l", "y", "s", "i", "s">>],
         extracted_sections |-> ExtractedSections(top_sections),
         subsection_analysis |-> SubsectionAnalysis(top_sections, proc)]

Missing == [state |-> "missing", data |-> {}]
Unreadable == [state |-> "unreadable", data |-> {}]
Json(data) == [state |-> "json", data |-> data]

PersonaFilePool ==
    { Missing, Unreadable,
      Json({[field |-> "title", text |-> <<"T", "r", "a", "v", "e", "l", " ", "P", "l", "a", "n", "n", "e", "r">>],
            [field |-> "interests", text |-> <<"T", "h", "e", " ", "h", "o", "t", "e", "l", " ", "a", "n", "d", " ", "t", "h", "e", " ", "t", "r", "a", "v", "e", "l">>],
            [field |-> "name", text |-> <<"B", "u", "d", "g", "e", "t", " ", "T", "r", "a", "v", "e", "l", "l", "e", "r">>]}) }

JobFilePool ==
    { Missing, Unreadable,
      Json({[field |-> "description", text |-> <<"P", "l", "a", "n", " ", "a", " ", "t", "r", "i", "p", " ", "w", "i", "t", "h", " ", "t", "h", "i", "s", " ", "b", "u", "d", "g", "e", "t">>]}) }

PdfFilePool == { <<>>, <<"a.pdf">>, <<"a.pdf", "b.pdf">> }

SectionPoolOf(file) ==
    IF file = "a.pdf"
    THEN { [document |-> file, title |-> <<"I", "n", "t", "r", "o">>, page_num |-> 1, relevance_score |-> 10,
            content |-> <<"S", "h", "o", "r", "t", " ", "o", "n", "e", ".">>],
           [document |-> file, title |-> <<"P", "l", "a", "n">>, page_num |-> 2, relevance_score |-> 25,
            content |-> <<"P", "l", "a", "n", " ", "t", "h", "e", " ", "b", "u", "d", "g", "e", "t", " ", "f", "o", "r", " ", "t", "h", "e", " ", "t", "r", "i", "p", " ", "n", "o", "w", ".", " ", "T", "h", "e", " ", "w", "e", "a", "t", "h", "e", "r", " ", "r", "e", "p", "o", "r", "t", " ", "i", "s", " ", "r", "a", "t", "h", "e", "r", " ", "n", "i", "c", "e", " ", "t", "o", "d", "a", "y", ".", " ", "T", "h", "e", " ", "w", "e", "a", "t", "h", "e", "r", " ", "r", "e", "p", "o", "r", "t", " ", "i", "s", " ", "r", "a", "t", "h", "e", "r", " ", "n", "i", "c", "e", " ", "t", "o", "d", "a", "y", ".", " ", "T", "h", "e", " ", "w", "e", "a", "t", "h", "e", "r", " ", "r", "e", "p", "o", "r", "t", " ", "i", "s", " ", "r", "a", "t", "h", "e", "r", " ", "n", "i", "c", "e", " ", "t", "o", "d", "a", "y", ".", " ", "T", "h", "e", " ", "w", "e", "a", "t", "h", "e", "r", " ", "r", "e", "p", "o", "r", "t", " ", "i", "s", " ", "r", "a", "t", "h", "e", "r", " ", "n", "i", "c", "e", " ", "t", "o", "d", "a", "y", ".", " ", "T", "h", "e", " ", "w", "e", "a", "t", "h", "e", "r", " ", "r", "e", "p", "o", "r", "t", " ", "i", "s", " ", "r", "a", "t", "h", "e", "r", " ", "n", "i", "c", "e", " ", "t", "o", "d", "a", "y", ".", " ", "T", "h", "e", " ", "w", "e", "a", "t", "h", "e", "r", " ", "r", "e", "p", "o", "r", "t", " ", "i", "s", " ", "r", "a", "t", "h", "e", "r", " ", "n", "i", "c", "e", " ", "t", "o", "d", "a", "y", ".", " ", "T", "h", "e", " ", "w", "e", "a", "t", "h", "e", "r", " ", "r", "e", "p", "o", "r", "t", " ", "i", "s", " ", "r", "a", "t", "h", "e", "r", " ", "n", "i", "c", "e", " ", "t", "o", "d", "a", "y", ".", " ", "T", "h", "e", " ", "w", "e", "a", "t", "h", "e", "r", " ", "r", "e", "p", "o", "r", "t", " ", "i", "s", " ", "r", "a", "t", "h", "e", "r", " ", "n", "i", "c", "e", " ", "t", "o", "d", "a", "y", ".", " ", "T", "h", "e", " ", "w", "e", "a", "t", "h", "e", "r", " ", "r", "e", "p", "o", "r", "t", " ", "i", "s", " ", "r", "a", "t", "h", "e", "r", " ", "n", "i", "c", "e", " ", "t", "o", "d", "a", "y", ".", " ", "T", "h", "e", " ", "w", "e", "a", "t", "h", "e", "r", " ", "r", "e", "p", "o", "r", "t", " ", "i", "s", " ", "r", "a", "t", "h", "e", "r", " ", "n", "i", "c", "e", " ", "t", "o", "d", "a", "y", ".", " ", "T", "h", "e", " ", "w", "e", "a", "t", "h", "e", "r", " ", "r", "e", "p", "o", "r", "t", " ", "i", "s", " ", "r", "a", "t", "h", "e", "r", " ", "n", "i", "c", "e", " ", "t", "o", "d", "a", "y", ".", " ", "B", "o", "o", "k", " ", "a", " ", "h", "o", "t", "e", "l", " ", "n", "e", "a", "r", " ", "t", "h", "e", " ", "t", "r", "a", "v", "e", "l", " ", "h", "u", "b", "!", " ", "E", "t", "c", ".", " ", "B", "u", "d", "g", "e", "t", " ", "h", "o", "t", "e", "l", " ", "t", "r", "a", "v", "e", "l", "?">>] }
    ELSE { [document |-> file, title |-> <<"C", "o", "s", "t", "s">>, page_num |-> 1, relevance_score |-> 10,
            content |-> <<"C", "o", "s", "t", "s", " ", "o", "f", " ", "t", "h", "e", " ", "h", "o", "t", "e", "l", ".">>] }

PpInit ==
    /\ pp_pc = "start"
    /\ persona_file \in PersonaFilePool
    /\ job_file \in JobFilePool
    /\ pdf_files \in PdfFilePool
    /\ \E ka \in 0..MaxSectionsPerRun : \E kb \in 0..(MaxSectionsPerRun - ka) :
          /\ ka > 0 => \E i \in 1..Len(pdf_files) : pdf_files[i] = "a.pdf"
          /\ kb > 0 => \E i \in 1..Len(pdf_files) : pdf_files[i] = "b.pdf"
          /\ \E la \in [1..ka -> SectionPoolOf("a.pdf")] :
             \E lb \in [1..kb -> SectionPoolOf("b.pdf")] :
                pdf_sections = ("a.pdf" :> la) @@ ("b.pdf" :> lb)
    /\ processor = [persona_keywords |-> {}, job_keywords |-> {}]
    /\ loaded = <<>>
    /\ output_file = <<>>

\* Line 232: processor.load_persona_and_job(input_dir)
LoadPersonaAndJob ==
    /\ pp_pc = "start"
    /\ pp_pc' = "loaded"
    /\ LET r == load_persona_and_job(processor, persona_file, job_file) IN
        /\ processor' = [persona_keywords |-> r.persona_keywords,
                         job_keywords |-> r.job_keywords]
        /\ loaded' = [persona_data |-> r.persona_data, job_data |-> r.job_data]
    /\ UNCHANGED <<persona_file, job_file, pdf_files, pdf_sections, output_file>>

\* Lines 238-242: no PDF file, nothing is written.
NoPdfFiles ==
    /\ pp_pc = "loaded"
    /\ pdf_files = <<>>
    /\ pp_pc' = "returned"
    /\ UNCHANGED <<persona_file, job_file, pdf_files, pdf_sections, processor, loaded, output_file>>

\* Lines 244-300.
WriteOutput ==
    /\ pp_pc = "loaded"
    /\ pdf_files # <<>>
    /\ pp_pc' = "written"
    /\ output_file' = Result(pdf_files, pdf_sections, processor, loaded)
    /\ UNCHANGED <<persona_file, job_file, pdf_files, pdf_sections, processor, loaded>>

PpNext ==
    \/ LoadPersonaAndJob /\ UNCHANGED <<structVars, sumVars, relVars, simVars, cosVars, olVars, qaVars, rfVars, lkVars, rcVars>>
    \/ NoPdfFiles /\ UNCHANGED <<structVars, sumVars, relVars, simVars, cosVars, olVars, qaVars, rfVars, lkVars, rcVars>>
    \/ WriteOutput /\ UNCHANGED <<structVars, sumVars, relVars, simVars, cosVars, olVars, qaVars, rfVars, lkVars, rcVars>>

PersonaInit == PpInit /\ StructIdle /\ SumIdle /\ RelIdle /\ SimIdle /\ CosIdle /\ OlIdle /\ QaIdle /\ RfIdle /\ LkIdle /\ RcIdle

SpecPersona == PersonaInit /\ [][PpNext]_vars

(***************************************************************************)
(* upload_document and extract_text_from_pdf (server.py 112-128, 355-387). *)
(*                                                                         *)
(* An uploaded file has its name and its bytes.  The bytes either cannot   *)
(* be opened by PdfReader or are a list of pages; extract_text() of a page *)
(* gives its text or raises.  The created_at of the stored document, a     *)
(* clock reading, is left out.                                             *)
(***************************************************************************)
StatusBadRequest == 400

PdfSuffix == <<".", "p", "d", "f">>

OnlyPdfSupported ==
    [status |-> StatusBadRequest, detail |-> "Only PDF files are supported", body |-> <<>>]
ErrorExtractingPdf ==
    [status |-> StatusBadRequest, detail |-> "Error extracting PDF", body |-> <<>>]
\* An exception that no handler catches: the framework answers 500.
InternalServerError == [status |-> 500, detail |-> "Internal Server Error", body |-> <<>>]

\* Lines 119-121: text += f"\n--- Page {page_num} ---\n{page_text}\n"
RECURSIVE PagesText(_, _)
PagesText(pages, page_num) ==
    IF page_num > Len(pages) THEN <<>>
    ELSE <<"\n">> \o PageMarkerPrefix \o ToDecimal(page_num) \o PageMarkerSuffix \o <<"\n">>
         \o pages[page_num].text \o <<"\n">> \o PagesText(pages, page_num + 1)

\* extract_text_from_pdf, variant that returns the text of no page when the
\* reader or a page raises.
extract_text_from_pdf_lenient(file_content) ==
    IF ~file_content.opens \/ \E i \in 1..Len(file_content.pages) : file_content.pages[i].raises
    THEN [ok |-> TRUE, text |-> <<>>, page_count |-> 0]
    ELSE [ok |-> TRUE, text |-> PagesText(file_content.pages, 1),
          page_count |-> Len(file_content.pages)]

\* Lines 112-128: ok = FALSE when the try block raised, and line 128 raises
\* HTTPException(400).
extract_text_from_pdf(file_content) ==
    IF ~file_content.opens \/ \E i \in 1..Len(file_content.pages) : file_content.pages[i].raises
    THEN [ok |-> FALSE, text |-> <<>>, page_count |-> 0]
    ELSE [ok |-> TRUE, text |-> PagesText(file_content.pages, 1),
          page_count |-> Len(file_content.pages)]

\* Lines 355-387 with drawn uuid4() values drawn before: the response and
\* the documents of the store afterwards.
upload_document(documents, file, drawn) ==
    IF ~EndsWith(file.filename, PdfSuffix)
    THEN [response |-> OnlyPdfSupported, documents |-> documents]
    ELSE LET extracted == extract_text_from_pdf(file.content) IN
         IF ~extracted.ok
         THEN [response |-> ErrorExtractingPdf, documents |-> documents]
         ELSE LET detected == detect_document_structure(extracted.text, drawn) IN
              IF ~detected.ok
              THEN [response |-> InternalServerError, documents |-> documents]
              ELSE LET created == create_embedding_segments(extracted.text, detected.structure,
                                                            detected.drawn)
                       document_data ==
                          [id |-> Uuid4(created.drawn + 1),
                           title |-> file.filename,
                           content |-> extracted.text,
                           total_pages |-> extracted.page_count,
                           structure |-> detected.structure,
                           embedding_segments |-> created.segments,
                           has_pdf |-> TRUE]
                   IN  [response |-> Ok(document_data),
                        documents |-> Append(documents, document_data)]

FileNamePool == { <<"a", ".", "p", "d", "f">>, <<"a", ".", "t", "x", "t">>, <<"a", ".", "P", "D", "F">>, <<"p", "d", "f">> }

PagePool ==
    { [raises |-> TRUE, text |-> <<>>],
      [raises |-> FALSE, text |-> <<>>],
      [raises |-> FALSE, text |-> <<"A", "B", " ", "C", "D", "\n", "b", "o", "d", "y">>],
      [raises |-> FALSE, text |-> <<"-", "-", "-", " ", "P", "a", "g", "e", " ", "x", " ", "-", "-", "-">>] }

MaxPages == 2

FileContentPool ==
    { [opens |-> FALSE, pages |-> <<>>] }
    \cup {[opens |-> TRUE, pages |-> ps] : ps \in UNION {[1..n -> PagePool] : n \in 0..MaxPages}}

\* uuid4() values of the segments of the stored documents.
UuidsInStore ==
    UNION {{doc.embedding_segments[k].id : k \in 1..Len(doc.embedding_segments)} :
              doc \in DocumentPool}

UpInit ==
    /\ lk_pc = "ready"
    /\ db_documents \in Stores
    /\ request = <<>>
    /\ response = <<>>

UploadDocument ==
    /\ lk_pc = "ready"
    /\ lk_pc' = "uploaded"
    /\ \E filename \in FileNamePool, content \in FileContentPool :
          LET file == [filename |-> filename, content |-> content]
              r == upload_document(db_documents, file, Cardinality(UuidsInStore))
          IN  /\ request' = [endpoint |-> "upload", file |-> file]
              /\ response' = r.response
              /\ db_documents' = r.documents

UpNext == UploadDocument /\ UNCHANGED <<structVars, sumVars, relVars, simVars, cosVars, olVars, qaVars, rfVars, rcVars, ppVars>>

UploadInit == UpInit /\ StructIdle /\ SumIdle /\ RelIdle /\ SimIdle /\ CosIdle /\ OlIdle /\ QaIdle /\ RfIdle /\ RcIdle /\ PpIdle

SpecUpload == UploadInit /\ [][UpNext]_vars

(***************************************************************************)
(* Claims about the structure extractor and the segmenter.                 *)
(***************************************************************************)
Structured == pc \in {"structured", "segmented"}

\* C1: whenever detect_document_structure returns, the sections' start_char
\* values are non-decreasing in list order and every section satisfies
\* 0 <= start_char <= end_char <= len(text).
C1_OffsetsOrderedAndInRange ==
    Structured =>
        /\ \A i \in 1..Len(structure) :
             /\ 0 <= structure[i].start_char
             /\ structure[i].start_char <= structure[i].end_char
             /\ structure[i].end_char <= Len(text)
        /\ \A i \in 1..(Len(structure) - 1) :
             structure[i].start_char <= structure[i + 1].start_char

\* Two sections, the second one past stripped whitespace and at a later offset.
C1_Witness ==
    /\ pc = "structured"
    /\ Len(structure) >= 2
    /\ structure[1].start_char < structure[2].start_char
    /\ text[1] = " "
    /\ structure[Len(structure)].end_char < Len(text)

\* C2 (as claimed): every segment returned by create_embedding_segments has
\* stored content whose trimmed length is greater than 50.
C2_StoredContentSubstantial ==
    pc = "segmented" =>
        \A i \in 1..Len(segments) : Len(StripStr(segments[i].content)) > 50

\* The characters of s that are not whitespace span more than n positions.
TrimmedLongerThan(s, n) ==
    \E i \in 1..Len(s) : \E j \in (i + n)..Len(s) :
        s[i] \notin Space /\ s[j] \notin Space

\* The chunk that starts at offset 800*k: text[800*k : 800*k + 1000].
ExpectedChunk(k) ==
    [j \in 1..Min(1000, Len(text) - 800 * k) |-> text[800 * k + j]]

ExpectedChunkIndexes == {k \in 0..Len(text) : 800 * k < Len(text)}

\* C3: with an empty structure the chunks formed are text[800k : 800k+1000] for
\* every k >= 0 with 800k < len(text), in that order; the segments are those
\* chunks whose trimmed length exceeds 50, in order, each with page_number 1,
\* the title "Chunk k+1" and the chunk as content.
C3_FixedChunks ==
    (pc = "segmented" /\ structure = <<>>) =>
        LET kept == {k \in ExpectedChunkIndexes : TrimmedLongerThan(ExpectedChunk(k), 50)}
            rank(k) == Cardinality({h \in kept : h <= k})
        IN  /\ Len(FixedChunks(text)) = Cardinality(ExpectedChunkIndexes)
            /\ \A k \in ExpectedChunkIndexes : FixedChunks(text)[k + 1] = ExpectedChunk(k)
            /\ Len(segments) = Cardinality(kept)
            /\ \A k \in kept :
                 /\ segments[rank(k)].content = ExpectedChunk(k)
                 /\ segments[rank(k)].page_number = 1
                 /\ segments[rank(k)].title = <<"C", "h", "u", "n", "k", " ">> \o ToDecimal(k + 1)

\* A 2500-character text without headings: 4 chunks, consecutive ones overlapping
\* by 200 characters, all four retained.
C3_Witness ==
    /\ pc = "segmented" /\ structure = <<>>
    /\ Len(text) = 2500
    /\ Len(segments) = 4
    /\ Len(segments[1].content) = 1000
    /\ Len(segments[4].content) = 100
    /\ segments[4].title = <<"C", "h", "u", "n", "k", " ", "4">>

\* The trimmed body of section i: text[start_i : start_(i+1)], to the end of the
\* text for the last section.
SectionBody(i) ==
    StripStr(Slice(text, structure[i].start_char,
                   IF i < Len(structure) THEN structure[i + 1].start_char ELSE Len(text)))

\* C4: with a non-empty structure the segments are, in section order, one per
\* section whose trimmed body is longer than 50 characters; the content is the
\* first 1000 characters of the trimmed body, and title, page_number and
\* section_id are the section's.
C4_SectionSegments ==
    (pc = "segmented" /\ structure # <<>>) =>
        LET kept == {i \in 1..Len(structure) : Len(SectionBody(i)) > 50}
            rank(i) == Cardinality({h \in kept : h <= i})
        IN  /\ Len(segments) = Cardinality(kept)
            /\ \A i \in kept :
                 /\ segments[rank(i)].content = SubSeq(SectionBody(i), 1, Min(1000, Len(SectionBody(i))))
                 /\ Len(segments[rank(i)].content) <= 1000
                 /\ segments[rank(i)].title = structure[i].title
                 /\ segments[rank(i)].page_number = structure[i].page_number
                 /\ segments[rank(i)].section_id = structure[i].id

\* A truncated body, a dropped section, and a segment of a later section.
C4_Witness ==
    /\ pc = "segmented"
    /\ Len(structure) >= 2
    /\ Len(segments) = 1
    /\ segments[1].section_id = structure[2].id
    /\ Len(segments[1].content) = 1000

(***************************************************************************)
(* Claims about the summariser.                                            *)
(***************************************************************************)
\* The sentences of the text with more than 5 words, in order.
LongSentences ==
    LET kept == SelectSeq(sum_text, LAMBDA b : b # PageMarker /\ Len(b) > 5)
    IN  [i \in 1..Len(kept) |-> SentenceOf(kept[i])]

\* C5: when the number of preprocessed sentences (those with more than 5 words)
\* is <= max_sentences, the summary is all of them in their original order
\* joined by single spaces, and calculate_sentence_scores is not called.
C5_ShortCircuit ==
    (sum_pc = "done" /\ Len(LongSentences) <= max_sentences) =>
        /\ summary_sentences = LongSentences
        /\ summary = JoinSpace(LongSentences)
        /\ score_calls = 0

\* Exactly max_sentences = 2 different sentences left of a three-block text.
C5_Witness ==
    /\ sum_pc = "done"
    /\ max_sentences = 2
    /\ Len(sum_text) = 3
    /\ Len(sentences) = 2
    /\ sentences[1] # sentences[2]
    /\ Len(summary) = Len(sentences[1]) + 1 + Len(sentences[2])
    /\ score_calls = 0

\* C6: on the scoring path every sentence of the summary is a preprocessed
\* input sentence, and the summary's sentences are in the relative order of
\* the input: they are the input sentences at increasing positions.
C6_SummaryIsOrderedSubset ==
    (sum_pc = "done" /\ Len(LongSentences) > max_sentences) =>
        /\ score_calls = 1
        /\ \A i \in 1..Len(summary_sentences) :
             \E k \in 1..Len(LongSentences) : LongSentences[k] = summary_sentences[i]
        /\ \E f \in [1..Len(summary_sentences) -> 1..Len(LongSentences)] :
             /\ \A i \in 1..Len(summary_sentences) : LongSentences[f[i]] = summary_sentences[i]
             /\ \A i \in 1..(Len(summary_sentences) - 1) : f[i] < f[i + 1]
        /\ summary = JoinSpace(summary_sentences)

\* Three sentences, the first and the third selected, the third scoring higher.
C6_Witness ==
    /\ sum_pc = "done"
    /\ score_calls = 1
    /\ Len(sentences) = 3
    /\ max_sentences = 2
    /\ summary_sentences = <<sentences[1], sentences[3]>>
    /\ sentences[1] # sentences[3]
    /\ sentences[2] # sentences[3]
    /\ sentences[1] # sentences[2]

(***************************************************************************)
(* Claims about the relevance scorer (scores are held as 10 * score).      *)
(***************************************************************************)
FeaturesOf(i) ==
    SectionFeatures([title |-> all_sections[i].title, content |-> all_sections[i].content],
                    persona_keywords, job_keywords)

Overlaps(i) == FeaturesOf(i).persona_matches + FeaturesOf(i).job_matches > 0

\* C7: calculate_relevance_score returns a value in [0, 10].
C7_ScoreInRange ==
    \A i \in 1..Len(all_sections) :
        /\ 0 <= all_sections[i].relevance_score
        /\ all_sections[i].relevance_score <= 100

\* Empty keyword lists; one section without word tokens scoring 0.0, one section
\* whose uncapped total exceeds 10.
C7_Witness ==
    /\ persona_keywords = {} /\ job_keywords = {}
    /\ Len(all_sections) = 2
    /\ FeaturesOf(1).nwords = 0 /\ all_sections[1].relevance_score = 0
    /\ all_sections[2].relevance_score = 100

\* C8 (as claimed): a section whose words overlap the persona or job keywords
\* scores strictly higher than a section of equal length with no overlap.
C8_OverlapStrictlyHigher ==
    \A i, j \in 1..Len(all_sections) :
        (Overlaps(i) /\ ~Overlaps(j) /\ FeaturesOf(i).length = FeaturesOf(j).length)
            => all_sections[i].relevance_score > all_sections[j].relevance_score

SameOtherFeatures(i, j) ==
    /\ FeaturesOf(i).nwords = FeaturesOf(j).nwords
    /\ FeaturesOf(i).length = FeaturesOf(j).length
    /\ FeaturesOf(i).domain_matches = FeaturesOf(j).domain_matches
    /\ FeaturesOf(i).sentence_count = FeaturesOf(j).sentence_count
    /\ FeaturesOf(i).structure_score = FeaturesOf(j).structure_score

IsExamplePair(i, j) ==
    /\ persona_keywords = {"travel", "hotel"} /\ job_keywords = {"budget"}
    /\ all_sections[i].title = all_sections[j].title
    /\ all_sections[i].content =
         <<"Budget", "hotel", "recommendations", "for", "travelers", "on", "a", "budget">>
    /\ all_sections[j].content =
         <<"Silver", "birds", "characteristics", "are", "wonderful", "in", "a", "meadow">>

\* C8 (amended): of two sections with the same number of word tokens, length,
\* domain matches, punctuation count and structural bonus, the one that
\* overlaps the keywords scores at least as high as the one that does not, and
\* strictly higher when the latter is below the cap and the keyword terms
\* (20*pm + 30*jm)/W exceed 0.1; the spec's example pair is strictly ordered.
C8_OverlapAtLeastAsHigh ==
    \A i, j \in 1..Len(all_sections) :
        /\ (Overlaps(i) /\ ~Overlaps(j) /\ SameOtherFeatures(i, j)) =>
              /\ all_sections[i].relevance_score >= all_sections[j].relevance_score
              /\ (/\ all_sections[j].relevance_score < 100
                  /\ 10 * (20 * FeaturesOf(i).persona_matches + 30 * FeaturesOf(i).job_matches)
                        > FeaturesOf(i).nwords)
                 => all_sections[i].relevance_score > all_sections[j].relevance_score
        /\ IsExamplePair(i, j) =>
              all_sections[i].relevance_score > all_sections[j].relevance_score

\* A job-keyword section and a section equal in everything but the overlap.
C8_Witness ==
    /\ Len(all_sections) = 2
    /\ Overlaps(1) /\ ~Overlaps(2) /\ SameOtherFeatures(1, 2)
    /\ FeaturesOf(1).job_matches = 1 /\ FeaturesOf(1).persona_matches = 0
    /\ all_sections[2].relevance_score < 100
    /\ all_sections[1].relevance_score > all_sections[2].relevance_score

(***************************************************************************)
(* Search and related sections.                                            *)
(***************************************************************************)
\* Position in the stored document of the segment with the given id.
PosOf(id) == CHOOSE p \in 1..Len(document) : document[p].id = id

QueryScore(p) == calculate_similarity(query_embedding, document[p].embedding)

\* The results are a ranking of distinct stored segments: each carries the
\* similarity of its segment to the query, scores do not increase, results of
\* equal score keep the segment order, and no segment left out scores higher
\* than one returned.
IsRanking(results) ==
    /\ \A i \in 1..Len(results) :
        /\ \E p \in 1..Len(document) : document[p].id = results[i].section_id
        /\ results[i].similarity_score = QueryScore(PosOf(results[i].section_id))
    /\ \A i, j \in 1..Len(results) : i < j =>
        /\ results[i].section_id # results[j].section_id
        /\ ~SimGreater(results[j].similarity_score, results[i].similarity_score)
        /\ (results[i].similarity_score = results[j].similarity_score
                => PosOf(results[i].section_id) < PosOf(results[j].section_id))
    /\ \A p \in 1..Len(document) :
        (\A i \in 1..Len(results) : results[i].section_id # document[p].id)
            => \A i \in 1..Len(results) :
                  ~SimGreater(QueryScore(p), results[i].similarity_score)

\* C9, as stated: a search returns the min(limit, number of segments)
\* highest-scoring results, in non-increasing score order, results of equal
\* score in the original segment order.
C9_SearchReturnsMinLimit ==
    sim_pc = "searched" =>
        /\ Len(search_results) = Min(search_limit, Len(document))
        /\ IsRanking(search_results)

\* C9 by sign of the limit: the statement holds for a limit >= 0; a negative
\* limit is accepted and returns the ranking without its last -limit results.
C9_SearchReturnsPrefixOfRanking ==
    sim_pc = "searched" =>
        /\ IsRanking(search_results)
        /\ search_limit >= 0 => Len(search_results) = Min(search_limit, Len(document))
        /\ search_limit < 0 =>
              Len(search_results) = (IF Len(document) + search_limit > 0
                                     THEN Len(document) + search_limit ELSE 0)

C9_Witness ==
    /\ sim_pc = "searched"
    /\ search_limit = 2
    /\ Len(document) > 2
    /\ Len(search_results) = 2
    /\ search_results[1].similarity_score = search_results[2].similarity_score
    /\ PosOf(search_results[1].section_id) > 1
    /\ \E p \in 1..Len(document) :
          SimGreater(search_results[2].similarity_score, QueryScore(p))

\* The ids are what find_related_sections answers for the target: not the
\* target, no id twice, ids of stored segments, min(limit, others) of them, in
\* non-increasing similarity to the target.
IsRelatedAnswer(ids, target_id, limit) ==
    LET sim(id) == calculate_similarity(document[PosOf(target_id)].embedding,
                                        document[PosOf(id)].embedding)
    IN  /\ \A i \in 1..Len(ids) :
            /\ ids[i] # target_id
            /\ \E p \in 1..Len(document) : document[p].id = ids[i]
        /\ \A i, j \in 1..Len(ids) : i < j =>
            /\ ids[i] # ids[j]
            /\ ~SimGreater(sim(ids[j]), sim(ids[i]))
        /\ Len(ids) = Min(limit, Len(document) - 1)

\* C10: find_related_sections never returns the target's id nor an id twice,
\* returns at most limit ids (all other segments when there are fewer) in
\* non-increasing similarity to the target; the limit is 3 within search and 5
\* in the related-sections lookup.
C10_RelatedSections ==
    /\ sim_pc = "related" =>
          /\ related_limit = 5
          /\ IsRelatedAnswer(related_ids, related_target, 5)
    /\ sim_pc = "searched" =>
          \A i \in 1..Len(search_results) :
              IsRelatedAnswer(search_results[i].related_sections,
                              search_results[i].section_id, 3)

C10_Witness ==
    /\ sim_pc = "related"
    /\ Len(document) = 7
    /\ Len(related_ids) = 5
    /\ \E i \in 1..4 :
          SimGreater(
              calculate_similarity(document[PosOf(related_target)].embedding,
                                   document[PosOf(related_ids[i])].embedding),
              calculate_similarity(document[PosOf(related_target)].embedding,
                                   document[PosOf(related_ids[i + 1])].embedding))
    /\ \E i \in 1..5 : related_ids[i] < related_target

(***************************************************************************)
(* Claims about calculate_similarity.                                      *)
(***************************************************************************)
NonZero(v) == Dot(v, v) # 0

\* C11: for vectors a and b of equal dimension with non-zero norms,
\* calculate_similarity(a, b) equals calculate_similarity(b, a).
C11_SimilaritySymmetric ==
    (cos_pc = "done" /\ NonZero(vec_a) /\ NonZero(vec_b)) => cos_ab = cos_ba

\* Two different non-zero vectors that are neither orthogonal nor parallel.
C11_Witness ==
    /\ cos_pc = "done"
    /\ NonZero(vec_a) /\ NonZero(vec_b)
    /\ vec_a # vec_b
    /\ Dot(vec_a, vec_a) # Dot(vec_b, vec_b)
    /\ cos_ab.dot # 0
    /\ cos_ab.dot * cos_ab.dot # cos_ab.norm_sq

\* C12: calculate_similarity never produces NaN, whatever the norms of its
\* arguments.
C12_NeverNaN ==
    cos_pc = "done" => ~IsNaN(cos_ab)

(***************************************************************************)
(* Claims about the pattern strategy.                                      *)
(***************************************************************************)
IsMarkerLine(line) == StartsWith(line, PageMarkerPrefix) /\ EndsWith(line, PageMarkerSuffix)

\* The stripped lines of the text that are classified.
ClassifiedLines ==
    {StripStr(SplitLines(ol_text)[i]) : i \in 1..Len(SplitLines(ol_text))}
        \ ({<<>>} \cup {l \in {StripStr(SplitLines(ol_text)[i]) : i \in 1..Len(SplitLines(ol_text))} :
                            IsMarkerLine(l)})

\* An upper-case letter followed by lower-case letters, from position p to the end.
CapitalizedWordAt(line, p) ==
    /\ p + 1 <= Len(line)
    /\ line[p] \in Upper
    /\ \A i \in (p + 1)..Len(line) : line[i] \in Lower

\* '<int>. <Capitalized word>'
IsIntDotWord(line) ==
    \E k \in 1..Len(line) :
        /\ \A i \in 1..k : line[i] \in Digit
        /\ k + 2 <= Len(line) /\ line[k + 1] = "." /\ line[k + 2] = " "
        /\ CapitalizedWordAt(line, k + 3)

\* '<int>.<int> <Capitalized word>'
IsIntDotIntWord(line) ==
    \E k, d \in 1..Len(line) :
        /\ \A i \in 1..k : line[i] \in Digit
        /\ k + d + 2 <= Len(line) /\ line[k + 1] = "."
        /\ \A i \in (k + 2)..(k + d + 1) : line[i] \in Digit
        /\ line[k + d + 2] = " "
        /\ CapitalizedWordAt(line, k + d + 3)

\* The line ends in a period and matches none of the rules before the last.
IsUnmatchedSentence(line) ==
    /\ EndsWith(line, <<".">>)
    /\ ~IsAllCaps(line) /\ ~IsNumberedChapter(line) /\ ~IsNumberedSection(line)
    /\ ~IsTitleCase(line)

SectionLevels(line) ==
    {ol_structure.structure[i].level :
        i \in {j \in 1..Len(ol_structure.structure) : ol_structure.structure[j].title = line}}

OutlineLevels(line) ==
    {ol_result.outline[i].level :
        i \in {j \in 1..Len(ol_result.outline) : ol_result.outline[j].text = line}}

Introduction == <<"1", ".", " ", "I", "n", "t", "r", "o", "d", "u", "c", "t", "i", "o", "n">>
Overview == <<"1", ".", "1", " ", "O", "v", "e", "r", "v", "i", "e", "w">>

\* C13: the pattern strategy makes a line '<int>. <Capitalized word>' a level-1
\* heading and a line '<int>.<int> <Capitalized word>' a level-2 heading, makes
\* no heading of a line ending in a period that matches no earlier rule, and
\* puts every heading on page 1 when the text has no page marker; the example
\* text yields exactly the headings '1. Introduction' (1) and '1.1 Overview' (2).
C13_PatternStrategy ==
    /\ (ol_pc = "structured" /\ ol_structure.ok) =>
          /\ \A line \in ClassifiedLines :
                /\ IsIntDotWord(line) => SectionLevels(line) = {1}
                /\ IsIntDotIntWord(line) => SectionLevels(line) = {2}
                /\ IsUnmatchedSentence(line) => SectionLevels(line) = {}
          /\ (\A i \in 1..Len(SplitLines(ol_text)) : ~IsMarkerLine(StripStr(SplitLines(ol_text)[i])))
                => \A j \in 1..Len(ol_structure.structure) :
                      ol_structure.structure[j].page_number = 1
          /\ ol_text = ExampleText =>
                /\ Len(ol_structure.structure) = 2
                /\ ol_structure.structure[1].title = Introduction
                /\ ol_structure.structure[1].level = 1
                /\ ol_structure.structure[2].title = Overview
                /\ ol_structure.structure[2].level = 2
    /\ ol_pc = "outlined" =>
          /\ \A line \in ClassifiedLines :
                /\ IsIntDotWord(line) => OutlineLevels(line) = {"H1"}
                /\ IsIntDotIntWord(line) => OutlineLevels(line) = {"H2"}
                /\ (EndsWith(line, <<".">>) /\ FirstPattern(line) = 0) => OutlineLevels(line) = {}
          /\ (\A i \in 1..Len(SplitLines(ol_text)) : ~IsMarkerLine(StripStr(SplitLines(ol_text)[i])))
                => \A j \in 1..Len(ol_result.outline) : ol_result.outline[j].page = 1
          /\ ol_text = ExampleText =>
                ol_result.outline = << [level |-> "H1", text |-> Introduction, page |-> 1],
                                       [level |-> "H2", text |-> Overview, page |-> 1] >>

\* The example text, structured by detect_document_structure.
C13_Witness ==
    /\ ol_pc = "structured"
    /\ ol_text = ExampleText
    /\ ol_structure.ok
    /\ Len(ol_structure.structure) = 2
    /\ \E line \in ClassifiedLines : IsUnmatchedSentence(line)
    /\ \E line \in ClassifiedLines : IsIntDotWord(line)
    /\ \E line \in ClassifiedLines : IsIntDotIntWord(line)

(***************************************************************************)
(* Claims about answer_question_offline.                                   *)
(***************************************************************************)
\* The question's tokens that are alphabetic and no stop-words.
Keywords ==
    {w \in {question[i] : i \in 1..Len(question)} :
        w \notin {"what", "is", "the", "of", "it"} /\ w \notin {"?", ".", "!", "42"}}

OverlapOf(i) == Cardinality(context_segments[i].words \cap Keywords)

\* C14: with at least one keyword in the question and no candidate segment
\* whose word set shares a keyword (the empty candidate list included), the
\* answer is the fixed 'could not find relevant information' message.
C14_NoOverlapNotFound ==
    (/\ qa_pc = "answered"
     /\ Keywords # {}
     /\ \A i \in 1..Len(context_segments) : OverlapOf(i) = 0)
        => answer = CouldNotFind

\* Two candidates, neither sharing a word with a question that has keywords.
C14_Witness ==
    /\ qa_pc = "answered"
    /\ Keywords # {}
    /\ Len(context_segments) = 2
    /\ OverlapOf(1) = 0 /\ OverlapOf(2) = 0
    /\ answer = CouldNotFind
    /\ qa_examined = 2

\* The earliest candidate among those with the highest overlap.
BestIndex ==
    CHOOSE i \in 1..Len(context_segments) :
        /\ OverlapOf(i) > 0
        /\ \A j \in 1..Len(context_segments) :
              /\ OverlapOf(j) <= OverlapOf(i)
              /\ j < i => OverlapOf(j) < OverlapOf(i)

\* The texts of the best segment's sentences that hold a keyword, in order.
KeywordSentences ==
    LET sens == context_segments[BestIndex].sentences
        hit == {i \in 1..Len(sens) : sens[i].words \cap Keywords # {}}
        at(k) == CHOOSE p \in hit : Cardinality({q \in hit : q < p}) = k - 1
    IN  [k \in 1..Cardinality(hit) |-> sens[at(k)].text]

\* C18: when a candidate overlaps the keywords, the answer comes from the
\* candidate with the highest overlap ratio, the earliest on ties: the first 3
\* (or fewer) of its sentences that hold a keyword, in order, joined by spaces;
\* when it has no such sentence, its first 500 characters followed by '...'.
C18_AnswerFromBestSegment ==
    (/\ qa_pc = "answered"
     /\ Keywords # {}
     /\ \E i \in 1..Len(context_segments) : OverlapOf(i) > 0)
        => IF KeywordSentences # <<>>
           THEN answer = JoinSpace(SubSeq(KeywordSentences, 1, Min(3, Len(KeywordSentences))))
           ELSE answer = SubSeq(context_segments[BestIndex].content, 1,
                                Min(500, Len(context_segments[BestIndex].content)))
                            \o <<".", ".", ".">>

\* The second candidate overlaps more than the first and has four sentences
\* with a keyword, of which the answer holds three.
C18_Witness ==
    /\ qa_pc = "answered"
    /\ Len(context_segments) = 2
    /\ OverlapOf(1) > 0
    /\ BestIndex = 2
    /\ Len(KeywordSentences) = 4
    /\ answer = JoinSpace(SubSeq(KeywordSentences, 1, 3))

\* C19: a question without a keyword (the empty question included) gets the
\* fixed 'could not understand' message, and no segment is looked at.
C19_NoKeywordNotUnderstood ==
    (qa_pc = "answered" /\ Keywords = {})
        => answer = CouldNotUnderstand /\ qa_examined = 0

\* A question of stop-words and punctuation only, asked over two candidates.
C19_Witness ==
    /\ qa_pc = "answered"
    /\ question # <<>>
    /\ Keywords = {}
    /\ Len(context_segments) = 2
    /\ answer = CouldNotUnderstand
    /\ qa_examined = 0

(***************************************************************************)
(* Claims about the outline extractors on degenerate input and about the   *)
(* font-metric levels.                                                     *)
(***************************************************************************)
\* A text without a non-blank character (the empty text included).
BlankText(t) == \A i \in 1..Len(t) : t[i] \in Space \cup {"\n"}

\* Spans that give no line, or lines whose body size is 0.
NoBodySize(spans) ==
    LET lines == merge_lines(spans)
    IN  \/ lines = <<>>
        \/ Mode([i \in 1..Len(lines) |-> lines[i].size]) = 0

\* C15: on empty or degenerate input both strategies return an outline without
\* headings and a sentinel title: the pattern strategy on a text without a
\* non-blank character, the font-metric strategy on no spans, no lines or on
\* lines whose body size is 0.
C15_DegenerateInputTolerated ==
    /\ (ol_pc = "outlined" /\ BlankText(ol_text))
          => /\ ol_result.outline = <<>>
             /\ ol_result.title \in {ErrorProcessingPdf, UntitledDocument}
    /\ (ol_pc = "processed" /\ NoBodySize(ol_spans))
          => ol_result = [title |-> PdfStem, outline |-> <<>>]

\* Spans of size 0 only, processed.
C15_Witness ==
    /\ ol_pc = "processed"
    /\ ol_spans # <<>>
    /\ \A i \in 1..Len(ol_spans) : ol_spans[i].size = 0
    /\ ol_result = [title |-> PdfStem, outline |-> <<>>]

\* C16: in the font-metric strategy a later line of ratio >= 1.8 is listed as
\* H1, so that every outline entry has a level among H1, H2, H3 and a page
\* number of at least 1.
C16_OutlineLevelsH1H2H3 ==
    ol_pc = "processed"
        => \A i \in 1..Len(ol_result.outline) :
              /\ ol_result.outline[i].level \in {"H1", "H2", "H3"}
              /\ ol_result.outline[i].page >= 1

(***************************************************************************)
(* Claims about refine_section_content.                                    *)
(***************************************************************************)
\* The sentences of the content that count, scored.
Scored == ScoredSentences(rf_section.content, rf_keywords)

\* Up to three distinct sentences, none scoring less than a sentence left out.
IsTopSelection(sel) ==
    /\ Len(sel) = Min(3, Len(Scored))
    /\ \A i \in 1..Len(sel) : sel[i] \in 1..Len(Scored)
    /\ \A i, j \in 1..Len(sel) : i # j => sel[i] # sel[j]
    /\ \A i \in 1..Len(sel) : \A k \in 1..Len(Scored) :
          (\A j \in 1..Len(sel) : sel[j] # k) => Scored[k].score <= Scored[sel[i]].score

\* The result is made of the selection sel within the budget of max_chars.
IsRefinementOf(sel) ==
    LET joined == JoinDotSpace([i \in 1..Len(sel) |-> Scored[sel[i]].text])
    IN  /\ Len(refined_content) <= rf_max_chars
        /\ \/ refined_content = joined
           \/ /\ Len(refined_content) >= 3
              /\ SubSeq(refined_content, Len(refined_content) - 2, Len(refined_content))
                    = <<".", ".", ".">>
              /\ Len(refined_content) - 3 < Len(joined)
              /\ SubSeq(refined_content, 1, Len(refined_content) - 3)
                    = SubSeq(joined, 1, Len(refined_content) - 3)

\* C17: refine_section_content returns the content unchanged when it has at
\* most max_chars characters; otherwise a string of at most max_chars
\* characters made of at most 3 highest-scoring sentences joined with '. ',
\* ending in '...' when it was truncated.
C17_RefinedWithinMaxChars ==
    rf_pc = "refined" =>
        IF Len(rf_section.content) <= rf_max_chars
        THEN refined_content = rf_section.content
        ELSE \E sel \in UNION {[1..k -> 1..Len(Scored)] : k \in 0..3} :
                IsTopSelection(sel) /\ IsRefinementOf(sel)

(***************************************************************************)
(* Claims about the lookups of the endpoints.                              *)
(***************************************************************************)
\* The stored document of the request's id, if any, has no segment of the
\* request's section id.
UnknownDocument(req, documents) ==
    \A i \in 1..Len(documents) : documents[i].id # req.document_id

UnknownSection(req, documents) ==
    /\ req.endpoint \in {"summarize", "related"}
    /\ req.section_id # 0
    /\ \A i \in 1..Len(documents) : documents[i].id = req.document_id =>
          \A k \in 1..Len(documents[i].embedding_segments) :
              documents[i].embedding_segments[k].id # req.section_id

\* C20: a request that names a document id not in the store, or (summarize
\* with a section id, related) a section id of none of the document's
\* segments, is answered by a not-found error without a summary, an answer or
\* a related list, and the stored documents stay as they are.
C20_UnknownIdNotFound ==
    [][(lk_pc' = "responded" /\
        (UnknownDocument(request', db_documents) \/ UnknownSection(request', db_documents)))
          => /\ response'.status = 404
             /\ response'.detail \in {"Document not found", "Section not found"}
             /\ response'.body = <<>>
             /\ db_documents' = db_documents]_vars

\* The related sections of a section of another stored document are asked for.
C20_Witness ==
    /\ lk_pc = "responded"
    /\ Len(db_documents) = 2
    /\ request.endpoint = "related"
    /\ ~UnknownDocument(request, db_documents)
    /\ UnknownSection(request, db_documents)
    /\ \E i \in 1..2 : \E k \in 1..Len(db_documents[i].embedding_segments) :
          db_documents[i].embedding_segments[k].id = request.section_id
    /\ response = [status |-> 404, detail |-> "Section not found", body |-> <<>>]

(***************************************************************************)
(* Claims about merge_lines.                                               *)
(***************************************************************************)
\* The line keys of the spans, and the k-th of them in (page, line) order.
LineKeys(spans) == {spans[i].line : i \in 1..Len(spans)}

KeyLess(a, b) == a[1] < b[1] \/ (a[1] = b[1] /\ a[2] < b[2])

KthKey(spans, k) ==
    CHOOSE key \in LineKeys(spans) :
        Cardinality({other \in LineKeys(spans) : KeyLess(other, key)}) = k - 1

\* The positions of the spans of a key, from left to right (input order on equal x).
LeftToRight(spans, key) ==
    LET at == {i \in 1..Len(spans) : spans[i].line = key}
        before(i, j) == spans[i].x < spans[j].x \/ (spans[i].x = spans[j].x /\ i < j)
    IN  [r \in 1..Cardinality(at) |->
            CHOOSE i \in at : Cardinality({j \in at : before(j, i)}) = r - 1]

\* One line per key, with the texts from left to right and the largest size.
MergedTextAndSize(spans, lines) ==
    /\ Len(lines) = Cardinality(LineKeys(spans))
    /\ \A k \in 1..Len(lines) :
          LET order == LeftToRight(spans, KthKey(spans, k))
          IN  /\ lines[k].text = JoinSpace([r \in 1..Len(order) |-> spans[order[r]].text])
              /\ lines[k].size >= 0
              /\ \A r \in 1..Len(order) : spans[order[r]].size <= lines[k].size
              /\ \E r \in 1..Len(order) : spans[order[r]].size = lines[k].size

\* The bold flag of each line is the OR of the bold flags of its spans.
MergedBoldIsOr(spans, lines) ==
    \A k \in 1..Len(lines) :
        lines[k].bold = (\E i \in 1..Len(spans) :
                            spans[i].line = KthKey(spans, k) /\ spans[i].bold)

\* C25: merge_lines gives one line per page+line key, with the spans' texts in
\* left-to-right order, the largest size among the spans, and a bold flag that
\* is true if any span of the line is bold.
C25_MergeLinesBoldIsOr ==
    ol_pc = "processed" =>
        /\ MergedTextAndSize(ol_spans, merge_lines(ol_spans))
        /\ MergedBoldIsOr(ol_spans, merge_lines(ol_spans))

(***************************************************************************)
(* Claims about the title and the duplicates of the pattern strategy.      *)
(***************************************************************************)
\* The stripped non-empty lines of the first page of the text.
FirstPage == FirstPageLines(SplitLines(ol_text), 1, <<>>)

\* None of the first 10 lines of the first page qualifies as a title.
NoTitleLine ==
    \A i \in 1..Min(10, Len(FirstPage)) : ~LooksLikeTitle(FirstPage[i])

\* C26: when none of the first 10 non-empty lines of the first page qualifies
\* as a title, detect_title returns the first non-empty first-page line of a
\* length L with 10 <= L < 100, and 'Untitled Document' without such a line.
C26_FallbackFromLength10 ==
    (ol_pc = "outlined" /\ ol_text # <<>> /\ NoTitleLine)
        => LET substantial == {i \in 1..Len(FirstPage) :
                                  10 <= Len(FirstPage[i]) /\ Len(FirstPage[i]) < 100}
           IN  IF substantial = {} THEN ol_result.title = UntitledDocument
               ELSE ol_result.title =
                        FirstPage[CHOOSE i \in substantial : \A j \in substantial : i <= j]

\* C27: the outline of the pattern strategy holds no two headings of the same
\* text, the texts taken as they are in the output.
C27_NoDuplicateHeadingText ==
    ol_pc = "outlined"
        => \A i, j \in 1..Len(ol_result.outline) :
              i # j => ol_result.outline[i].text # ol_result.outline[j].text

(***************************************************************************)
(* Claim about page markers without a page number.                         *)
(***************************************************************************)
\* C29: detect_document_structure returns a structure for every text and
\* raises nothing, a page marker whose third token is no integer included.
C29_StructureNeverFails ==
    ol_pc = "structured" => ol_structure.ok

(***************************************************************************)
(* Claims about the offsets and the identifiers of the structure.          *)
(***************************************************************************)
\* C23: for every section of detect_document_structure(text) the slice
\* text[start_char:end_char] is the section's heading line, its title.
C23_SliceIsHeadingLine ==
    Structured =>
        \A i \in 1..Len(structure) :
            Slice(text, structure[i].start_char, structure[i].end_char) = structure[i].title

\* C22: two runs of detect_document_structure and create_embedding_segments
\* on the same text give the same results, field for field, the identifiers
\* of the sections and of the segments included.
C22_RecomputationIdentical ==
    rc_pc = "twice" => second_run = first_run

(***************************************************************************)
(* Claim about the number of sentences of a scored summary.                *)
(***************************************************************************)
\* C24: on the scoring path with max_sentences >= 1 the summary has exactly
\* max_sentences sentences, also when a sentence text occurs more than once.
C24_ExactlyMaxSentences ==
    (sum_pc = "done" /\ Len(LongSentences) > max_sentences /\ max_sentences >= 1)
        => Len(summary_sentences) = max_sentences

\* C28: whenever load_persona_and_job has returned ({}, {}), persona_keywords
\* and job_keywords of the processor are both empty.
C28_EmptyResultEmptyKeywords ==
    (pp_pc \in {"loaded", "returned", "written"}
        /\ loaded.persona_data = {} /\ loaded.job_data = {})
    => (processor.persona_keywords = {} /\ processor.job_keywords = {})

\* The scored sections of a run in extraction order, and the index of the
\* section of rank r: higher scores first, equal scores in extraction order.
RunSections == AllSections(pdf_files, pdf_sections)

RankedBefore(all, j, i) ==
    \/ all[j].relevance_score > all[i].relevance_score
    \/ (all[j].relevance_score = all[i].relevance_score /\ j < i)

SectionOfRank(all, r) ==
    CHOOSE i \in 1..Len(all) :
        Cardinality({j \in 1..Len(all) : RankedBefore(all, j, i)}) = r - 1

\* C30: over n scored sections the output has min(5, n) extracted_sections
\* with importance_rank 1, 2, ... in list order; the section of rank i is the
\* one with i - 1 sections before it by score, equal scores in extraction
\* order, so that scores do not increase with the rank and no unselected
\* section scores higher than a selected one; subsection_analysis has the
\* same length and its entry i has the document and page of that section.
C30_TopFiveRanked ==
    pp_pc = "written" =>
        LET all == RunSections
            k == Min(5, Len(all))
            es == output_file.extracted_sections
            sa == output_file.subsection_analysis
        IN  /\ Len(es) = k
            /\ Len(sa) = k
            /\ \A i \in 1..k :
                  LET sec == all[SectionOfRank(all, i)] IN
                  /\ es[i].importance_rank = i
                  /\ es[i].document = sec.document
                  /\ es[i].section_title = sec.title
                  /\ es[i].page_number = sec.page_num
                  /\ sa[i].document = sec.document
                  /\ sa[i].page_number = sec.page_num
            /\ \A i \in 1..k : \A u \in 1..Len(all) :
                  all[u].relevance_score > all[SectionOfRank(all, i)].relevance_score
                  => \E h \in 1..(i - 1) : SectionOfRank(all, h) = u

\* Six sections, not in score order, with a tie between the last section
\* selected and the one left out, which come from different files.
C30_Witness ==
    /\ pp_pc = "written"
    /\ Len(RunSections) = 6
    /\ Len(output_file.extracted_sections) = 5
    /\ RunSections[1].relevance_score < RunSections[2].relevance_score
    /\ LET all == RunSections IN
        /\ all[SectionOfRank(all, 5)].relevance_score = all[SectionOfRank(all, 6)].relevance_score
        /\ all[SectionOfRank(all, 5)].document # all[SectionOfRank(all, 6)].document

\* The file of the request is not named *.pdf; its pages cannot be extracted.
NotAPdfName(req) ==
    LET name == req.file.filename
    IN  Len(name) < 4 \/ SubSeq(name, Len(name) - 3, Len(name)) # <<".", "p", "d", "f">>

ExtractionFails(req) ==
    \/ ~req.file.content.opens
    \/ \E i \in 1..Len(req.file.content.pages) : req.file.content.pages[i].raises

\* C21: an upload whose file is rejected as not a PDF, or whose page
\* extraction fails, is answered by an error (status 400, no document in the
\* body) and leaves the stored documents exactly as they were.
C21_FailedUploadLeavesStore ==
    [][(lk_pc' = "uploaded" /\ (NotAPdfName(request') \/ ExtractionFails(request')))
          => /\ response'.status = 400
             /\ response'.detail \in {"Only PDF files are supported", "Error extracting PDF"}
             /\ response'.body = <<>>
             /\ db_documents' = db_documents]_vars

\* A file named *.pdf whose second page raises was uploaded to a store of
\* two documents, which has its two documents still.
C21_Witness ==
    /\ lk_pc = "uploaded"
    /\ ~NotAPdfName(request)
    /\ request.file.content.opens
    /\ Len(request.file.content.pages) = 2
    /\ ~request.file.content.pages[1].raises
    /\ request.file.content.pages[2].raises
    /\ response = [status |-> 400, detail |-> "Error extracting PDF", body |-> <<>>]
    /\ Len(db_documents) = 2

====
